---- MODULE Spec2Model ----
(***************************************************************************)
(* Lineup assignment and weekly projection engine of fantasy_streams.      *)
(*                                                                         *)
(* get_optimal_lineup (src/app.py) is modelled pass by pass; a player is a *)
(* record with the keys the code reads: player_id, total_rank (None when   *)
(* the player has no rank), eligible_positions (the comma-joined string,   *)
(* kept as the sequence of tokens that split(',') and strip() produce) and *)
(* game_dates_this_week.                                                   *)
(***************************************************************************)
EXTENDS Integers, Sequences, FiniteSets, TLC

\* Python's None in the total_rank key (ranks themselves are sums of positive category ranks).
None == -1

\* The rank given to a player whose total_rank is None.
SentinelRank == 60

\* Position codes that occur in eligible_positions and in lineup_settings.
Positions == {"C", "D", "G"}

\* Bounds of the model.
MaxPlayers == 3
MaxRank == 2
MaxCap == 2
WeekLen == 3
MaxMoves == 2

VARIABLES
    players,              \* argument of get_optimal_lineup: the eligible-today pool
    lineup_settings,      \* argument of get_optimal_lineup: position -> capacity
    pc,                   \* position in get_optimal_lineup
    ranked_players,       \* processed copies, sorted by total_rank
    player_pool,          \* players still to be considered by the next pass
    lineup,               \* position -> list of assigned (processed) players
    assigned_player_ids,  \* ids given to assign_player so far
    pass1_lineup,         \* the lineup as pass 1 left it (history)
    team1_ranked_roster,  \* the base roster of the request (active_players in get_roster_data)
    roster_before,        \* the base roster as it was loaded (history)
    simulated_moves,      \* the request's simulated moves, in list order
    today,                \* date.today(), as a day number of the week (0: before, WeekLen + 1: after)
    wpc,                  \* the loop the request is in
    current_date,         \* the loop variable: the day number handled next
    roster_date,          \* the day number t1_daily_roster was built for (0: none yet)
    t1_daily_roster,      \* the roster built for roster_date
    t1_players_today,     \* its players with a game on roster_date
    team1_lineup,         \* get_optimal_lineup of those players
    request,              \* the request: endpoint, team names, week number
    snapshot,             \* the league database the request reads
    mpc,                  \* position in the request handler
    run,                  \* 1: first request, 2: the same request sent again
    stats,                \* the stats dict of get_matchup_stats
    team2_ranked_roster,  \* the opponent's roster
    team2_lineup,         \* get_optimal_lineup of the opponent's players of the day
    unused_spots_data,    \* day name -> open_slots, as _calculate_unused_spots fills it
    response,             \* what the handler returned: status and body
    first_response,       \* the response of the first request (history)
    active_players,       \* argument of find_optimal_lineup
    lineup_slots,         \* argument of find_optimal_lineup: position -> count
    spc,                  \* position in find_optimal_lineup
    optimal_roster,       \* its first result: list of <<player, position>>
    benched_players,      \* its second result: the players outside optimal_roster
    optimal_lineups,      \* the committed rows of the optimal_lineups table
    league_conn,          \* the generator's connection: open, in a transaction, its view of the rows
    gpc,                  \* position in generate_weekly_lineups
    gen_db,               \* what the run reads: lineup slots, enriched roster, team, week
    g_current_date,       \* the generator's loop variable: the day number handled next
    g_outcome,            \* how the run ended: "running", "returned", "failed", "committed"
    g_deleted,            \* the run has executed its DELETE (history)
    rows_before,          \* the committed rows when the run started (history)
    gen_runs,             \* number of runs started
    background_processes, \* the server's registry: league id -> process handle (0: no entry)
    processes,            \* every process started so far: its league and whether it runs
    db_files,             \* the leagues whose database file exists
    threads,              \* the request threads: handler, league id, position, last response
    raced,                \* leagues for which a handler passed its check while another
                          \* handler of the league was between its check and its Popen (history)
    log_queue,            \* the one Queue of log messages, oldest first
    consumers,            \* the /stream responses: "closed", "waiting" in get(), "ended"
    updates,              \* the update threads: position, log lines emitted
    ended_early,          \* a consumer got the terminator while an update was running (history)
    clock,                \* date.today() as a day number
    daily_lineups_dump,   \* the rows of daily_lineups_dump: date_, and the fetch they come from
    daily_player_stats,     \* the rows of daily_player_stats: date_, and the fetch they come from
    fpc,                  \* position in update_league_db
    fetch_run,            \* number of update runs started
    is_full_mode,         \* capture_lineups of the run
    run_day,              \* the day the run started (history)
    fetch_ok              \* the run's _update_daily_lineups stored its rows (history)

lineupVars == <<players, pc, ranked_players, player_pool, lineup,
                assigned_player_ids, pass1_lineup>>

weekVars == <<team1_ranked_roster, roster_before, simulated_moves, today, wpc,
              current_date, roster_date, t1_daily_roster, t1_players_today, team1_lineup>>

matchupVars == <<request, snapshot, mpc, run, stats, team2_ranked_roster, team2_lineup,
                 unused_spots_data, response, first_response>>

solverVars == <<active_players, lineup_slots, spc, optimal_roster, benched_players>>

genVars == <<optimal_lineups, league_conn, gpc, gen_db, g_current_date, g_outcome, g_deleted,
             rows_before, gen_runs>>

coreVars == <<lineup_settings, lineupVars, weekVars, matchupVars, solverVars>>

procVars == <<background_processes, processes, db_files, threads, raced>>

streamVars == <<log_queue, consumers, updates, ended_early>>

fetchVars == <<clock, daily_lineups_dump, daily_player_stats, fpc, fetch_run, is_full_mode,
               run_day, fetch_ok>>

auxVars == <<genVars, procVars, streamVars, fetchVars>>

notGenVars == <<coreVars, procVars, streamVars, fetchVars>>

notProcVars == <<coreVars, genVars, streamVars, fetchVars>>

notStreamVars == <<coreVars, genVars, procVars, fetchVars>>

notFetchVars == <<coreVars, genVars, procVars, streamVars>>

vars == <<lineup_settings, lineupVars, weekVars, matchupVars, solverVars, auxVars>>

\* No request handler and no solver call is in progress.
MatchupIdle ==
    /\ request = <<>>
    /\ snapshot = <<>>
    /\ mpc = "idle"
    /\ run = 0
    /\ stats = <<>>
    /\ team2_ranked_roster = <<>>
    /\ team2_lineup = <<>>
    /\ unused_spots_data = <<>>
    /\ response = <<>>
    /\ first_response = <<>>

SolverIdle ==
    /\ active_players = <<>>
    /\ lineup_slots = <<>>
    /\ spc = "idle"
    /\ optimal_roster = <<>>
    /\ benched_players = <<>>

GenIdle ==
    /\ optimal_lineups = {}
    /\ league_conn = <<>>
    /\ gpc = "idle"
    /\ gen_db = <<>>
    /\ g_current_date = 0
    /\ g_outcome = "idle"
    /\ g_deleted = FALSE
    /\ rows_before = {}
    /\ gen_runs = 0

ProcIdle ==
    /\ background_processes = <<>>
    /\ processes = <<>>
    /\ db_files = {}
    /\ threads = <<>>
    /\ raced = {}

StreamIdle ==
    /\ log_queue = <<>>
    /\ consumers = <<>>
    /\ updates = <<>>
    /\ ended_early = FALSE

FetchIdle ==
    /\ clock = 0
    /\ daily_lineups_dump = {}
    /\ daily_player_stats = {}
    /\ fpc = "idle"
    /\ fetch_run = 0
    /\ is_full_mode = FALSE
    /\ run_day = 0
    /\ fetch_ok = FALSE

AuxIdle == GenIdle /\ ProcIdle /\ StreamIdle /\ FetchIdle

\* No get_optimal_lineup call and no roster or matchup request is in progress.
LineupIdle ==
    /\ lineup_settings = <<>>
    /\ players = <<>>
    /\ pc = "idle"
    /\ ranked_players = <<>>
    /\ player_pool = <<>>
    /\ lineup = <<>>
    /\ assigned_player_ids = {}
    /\ pass1_lineup = <<>>

WeekIdle ==
    /\ team1_ranked_roster = <<>>
    /\ roster_before = <<>>
    /\ simulated_moves = <<>>
    /\ today = 0
    /\ wpc = "idle"
    /\ current_date = 0
    /\ roster_date = 0
    /\ t1_daily_roster = <<>>
    /\ t1_players_today = <<>>
    /\ team1_lineup = <<>>

CoreIdle == LineupIdle /\ WeekIdle /\ MatchupIdle /\ SolverIdle


----------------------------------------------------------------------------
\* Helpers on sequences.

Range(s) == {s[i] : i \in DOMAIN s}

\* Mutant: nothing is removed.
RemoveFirst_Keep(s, x) == s

\* list.remove(x): drops the first element equal to x.
RemoveFirst(s, x) ==
    LET i == CHOOSE k \in DOMAIN s : s[k] = x /\ \A j \in 1..(k - 1) : s[j] # x
    IN SubSeq(s, 1, i - 1) \o SubSeq(s, i + 1, Len(s))

----------------------------------------------------------------------------
\* get_optimal_lineup, src/app.py:237-333

\* Mutant: the "copy" is the caller's own record, so the sentinel is written into it.
CopyPlayer_Alias(p) ==
    LET q == IF p.total_rank = None THEN [p EXCEPT !.total_rank = SentinelRank] ELSE p
    IN [caller |-> q, copy |-> q]

\* player_copy = p.copy(), then None becomes the sentinel rank on the copy: the record
\* as the caller holds it afterwards, and the copy.
CopyPlayer(p) ==
    [caller |-> p,
     copy   |-> IF p.total_rank = None THEN [p EXCEPT !.total_rank = SentinelRank] ELSE p]

processed_players(ps) == [i \in DOMAIN ps |-> CopyPlayer(ps[i]).copy]

\* The caller's records after the call.
players_after_call(ps) == [i \in DOMAIN ps |-> CopyPlayer(ps[i]).caller]

\* sorted(..., key=total_rank) is stable: p goes behind every element of rank <= its own.
RECURSIVE InsertByRank(_, _)
InsertByRank(p, s) ==
    IF s = <<>> THEN <<p>>
    ELSE IF Head(s).total_rank <= p.total_rank
         THEN <<Head(s)>> \o InsertByRank(p, Tail(s))
         ELSE <<p>> \o s

\* Mutant: the players are taken in input order, not in rank order.
SortByRank_Unsorted(s) == s

RECURSIVE SortByRank(_)
SortByRank(s) ==
    IF s = <<>> THEN <<>>
    ELSE InsertByRank(s[Len(s)], SortByRank(SubSeq(s, 1, Len(s) - 1)))

\* get_pos_str(p).split(',') with each token stripped.
get_pos_str(p) == p.eligible_positions

\* lineup_settings.get(pos, 0)
Capacity(settings, pos) == IF pos \in DOMAIN settings THEN settings[pos] ELSE 0

\* Mutant: the capacity test admits one player too many.
HasOpenSlot_OffByOne(lu, settings, pos) ==
    pos \in DOMAIN lu /\ Len(lu[pos]) <= Capacity(settings, pos)

\* pos in lineup and len(lineup[pos]) < lineup_settings.get(pos, 0)
HasOpenSlot(lu, settings, pos) ==
    pos \in DOMAIN lu /\ Len(lu[pos]) < Capacity(settings, pos)

\* lineup = {pos: [] for pos in lineup_settings}; assigned_player_ids = set()
EmptyLineup(settings) ==
    [lineup |-> [pos \in DOMAIN settings |-> <<>>], assigned |-> {}]

assign_player(player, pos, st) ==
    [lineup   |-> [st.lineup EXCEPT ![pos] = Append(@, player)],
     assigned |-> st.assigned \cup {player.player_id}]

\* Mutant: the pool is not filtered by the assigned ids.
Unassigned_NoFilter(pool, assigned) == pool

\* player_pool = [p for p in player_pool if p.get('player_id') not in assigned_player_ids]
Unassigned(pool, assigned) ==
    SelectSeq(pool, LAMBDA p : p.player_id \notin assigned)

\* Mutant: every player is taken for a single-position player.
IsSinglePos_Any(p) == Len(p.eligible_positions) >= 1

\* Pass 1: players with one eligible position, in rank order.
IsSinglePos(p) == Len(get_pos_str(p)) = 1

single_pos_players(pool) == SortByRank(SelectSeq(pool, IsSinglePos))

Pass1Step(player, settings, st) ==
    LET pos == get_pos_str(player)[1]
    IN IF HasOpenSlot(st.lineup, settings, pos)
       THEN assign_player(player, pos, st)
       ELSE st

RECURSIVE Pass1Loop(_, _, _)
Pass1Loop(singles, settings, st) ==
    IF singles = <<>> THEN st
    ELSE Pass1Loop(Tail(singles), settings, Pass1Step(Head(singles), settings, st))

\* Pass 2: the remaining players, scarcity-aware.

\* Mutant: the open slots of the lineup, whether or not the player is eligible for them.
available_slots_for_player_Any(player, settings, st) ==
    SelectSeq(<<"C", "D", "G">>, LAMBDA pos : pos \in DOMAIN st.lineup
                                     /\ Len(st.lineup[pos]) < settings[pos])

available_slots_for_player(player, settings, st) ==
    SelectSeq(get_pos_str(player), LAMBDA pos : HasOpenSlot(st.lineup, settings, pos))

scarcity_count(slot, player, pool, st) ==
    Cardinality({i \in DOMAIN pool :
                    /\ pool[i] # player
                    /\ pool[i].player_id \notin st.assigned
                    /\ slot \in Range(get_pos_str(pool[i]))})

\* Mutant: the first open position of the player, whatever the scarcity.
best_pos_FirstOpen(slots, player, pool, st) == slots[1]

\* min(slot_scarcity, key=slot_scarcity.get): the first key, in insertion order, of least count.
best_pos(slots, player, pool, st) ==
    LET cnt(k) == scarcity_count(slots[k], player, pool, st)
        i == CHOOSE k \in DOMAIN slots :
                /\ \A j \in DOMAIN slots : cnt(k) <= cnt(j)
                /\ \A j \in 1..(k - 1) : cnt(j) > cnt(k)
    IN slots[i]

Pass2Step(player, pool, settings, st) ==
    LET slots == available_slots_for_player(player, settings, st)
    IN IF slots = <<>> THEN st
       ELSE assign_player(player, best_pos(slots, player, pool, st), st)

\* Mutant: the loop ends at the first player without an open slot (break for continue).
RECURSIVE Pass2Loop_Break(_, _, _, _)
Pass2Loop_Break(k, pool, settings, st) ==
    IF k > Len(pool) THEN st
    ELSE IF available_slots_for_player(pool[k], settings, st) = <<>> THEN st
         ELSE Pass2Loop_Break(k + 1, pool, settings,
                              Pass2Step(pool[k], pool, settings, st))

RECURSIVE Pass2Loop(_, _, _, _)
Pass2Loop(k, pool, settings, st) ==
    IF k > Len(pool) THEN st
    ELSE Pass2Loop(k + 1, pool, settings, Pass2Step(pool[k], pool, settings, st))

\* Pass 3: the upgrade pass over the bench.
\* Mutant: the first starter of the list is taken for the worst one.
worst_starter_in_pos_First(starters) == starters[1]

\* max(lineup[pos], key=total_rank): the first element of greatest rank.
worst_starter_in_pos(starters) ==
    starters[CHOOSE k \in DOMAIN starters :
                /\ \A j \in DOMAIN starters : starters[j].total_rank <= starters[k].total_rank
                /\ \A j \in 1..(k - 1) : starters[j].total_rank < starters[k].total_rank]

\* The evicted starter goes to the first of its own positions that has an open slot.
RECURSIVE ReSlot(_, _, _, _)
ReSlot(evicted, k, settings, lu) ==
    IF k > Len(get_pos_str(evicted)) THEN lu
    ELSE LET other_pos == get_pos_str(evicted)[k]
         IN IF HasOpenSlot(lu, settings, other_pos)
            THEN [lu EXCEPT ![other_pos] = Append(@, evicted)]
            ELSE ReSlot(evicted, k + 1, settings, lu)

Swap(benched_player, pos, settings, lu) ==
    LET worst == worst_starter_in_pos(lu[pos])
        swapped == [lu EXCEPT ![pos] = Append(RemoveFirst(@, worst), benched_player)]
    IN ReSlot(worst, 1, settings, swapped)

RECURSIVE Pass3Positions(_, _, _, _)
Pass3Positions(benched_player, k, settings, lu) ==
    IF k > Len(get_pos_str(benched_player)) THEN lu
    ELSE LET pos == get_pos_str(benched_player)[k]
         IN IF pos \notin DOMAIN lu \/ lu[pos] = <<>>
            THEN Pass3Positions(benched_player, k + 1, settings, lu)
            ELSE IF benched_player.total_rank < worst_starter_in_pos(lu[pos]).total_rank
                 THEN Swap(benched_player, pos, settings, lu)
                 ELSE Pass3Positions(benched_player, k + 1, settings, lu)

RECURSIVE Pass3Loop(_, _, _)
Pass3Loop(bench, settings, lu) ==
    IF bench = <<>> THEN lu
    ELSE Pass3Loop(Tail(bench), settings, Pass3Positions(Head(bench), 1, settings, lu))

----------------------------------------------------------------------------
\* The inputs: pools of at most MaxPlayers players with ids 1..n in input order.

Ranks == (1..MaxRank) \cup {None}

\* The eligible_positions strings of the pools: one position, or two positions in the
\* order the provider lists them.
EligibleChoices ==
    {<<"C">>, <<"D">>, <<"G">>, <<"C", "D">>, <<"C", "G">>, <<"D", "G">>}

PlayerOf(id, rank, elig) ==
    [player_id |-> id, total_rank |-> rank, eligible_positions |-> elig,
     game_dates_this_week |-> {}]

\* A total_rank is the sum of the category ranks of every scoring category, so it
\* has no upper limit: the pools of a ranked and an unranked player where the ranked
\* player's total_rank is the sentinel value or above it.
HighRanks == {SentinelRank, SentinelRank + 1}

Pool(r, e) == [i \in DOMAIN r |-> PlayerOf(i, r[i], e[i])]

Settings == [Positions -> 0..MaxCap]

\* The scenario of the specification: {C:2, D:2, G:1}, three C-only players of rank
\* 5, 10, 15 and one C,D player of rank 1.
ScenarioSettings == [pos \in Positions |-> IF pos = "G" THEN 1 ELSE 2]
ScenarioPlayers ==
    <<PlayerOf(1, 5, <<"C">>), PlayerOf(2, 10, <<"C">>), PlayerOf(3, 15, <<"C">>),
      PlayerOf(4, 1, <<"C", "D">>)>>

Init ==
    /\ \/ /\ \E n \in 0..MaxPlayers :
                \E r \in [1..n -> Ranks], e \in [1..n -> EligibleChoices] :
                   players = Pool(r, e)
          /\ lineup_settings \in Settings
       \/ players = ScenarioPlayers /\ lineup_settings = ScenarioSettings
       \/ /\ \E r \in HighRanks, u \in 1..2, e \in [1..2 -> EligibleChoices] :
                players = Pool([i \in 1..2 |-> IF i = u THEN None ELSE r], e)
          /\ lineup_settings \in Settings
    /\ pc = "start"
    /\ ranked_players = <<>>
    /\ player_pool = <<>>
    /\ lineup = [pos \in DOMAIN lineup_settings |-> <<>>]
    /\ assigned_player_ids = {}
    /\ pass1_lineup = [pos \in DOMAIN lineup_settings |-> <<>>]
    /\ team1_ranked_roster = <<>>
    /\ roster_before = <<>>
    /\ simulated_moves = <<>>
    /\ today = 0
    /\ wpc = "idle"
    /\ current_date = 0
    /\ roster_date = 0
    /\ t1_daily_roster = <<>>
    /\ t1_players_today = <<>>
    /\ team1_lineup = [pos \in DOMAIN lineup_settings |-> <<>>]
    /\ MatchupIdle
    /\ SolverIdle
    /\ AuxIdle

\* Lines 242-259: copy, substitute the sentinel, sort, empty lineup.
Prepare ==
    /\ pc = "start"
    /\ ranked_players' = SortByRank(processed_players(players))
    /\ player_pool' = ranked_players'
    /\ lineup' = EmptyLineup(lineup_settings).lineup
    /\ assigned_player_ids' = EmptyLineup(lineup_settings).assigned
    /\ pc' = "pass1"
    /\ players' = players_after_call(players)
    /\ UNCHANGED <<lineup_settings, pass1_lineup, weekVars, matchupVars, solverVars, auxVars>>

\* Lines 272-284.
Pass1 ==
    /\ pc = "pass1"
    /\ LET st == Pass1Loop(single_pos_players(player_pool), lineup_settings,
                           [lineup |-> lineup, assigned |-> assigned_player_ids])
       IN /\ lineup' = st.lineup
          /\ assigned_player_ids' = st.assigned
          /\ player_pool' = Unassigned(player_pool, st.assigned)
          /\ pass1_lineup' = st.lineup
    /\ pc' = "pass2"
    /\ UNCHANGED <<players, lineup_settings, ranked_players, weekVars, matchupVars, solverVars, auxVars>>

\* Lines 286-309.
Pass2 ==
    /\ pc = "pass2"
    /\ LET pool == SortByRank(player_pool)
           st == Pass2Loop(1, pool, lineup_settings,
                           [lineup |-> lineup, assigned |-> assigned_player_ids])
       IN /\ lineup' = st.lineup
          /\ assigned_player_ids' = st.assigned
          /\ player_pool' = Unassigned(pool, st.assigned)
    /\ pc' = "pass3"
    /\ UNCHANGED <<players, lineup_settings, ranked_players, pass1_lineup, weekVars, matchupVars, solverVars, auxVars>>

\* Lines 311-333.
Pass3 ==
    /\ pc = "pass3"
    /\ lineup' = Pass3Loop(player_pool, lineup_settings, lineup)
    /\ pc' = "done"
    /\ UNCHANGED <<players, lineup_settings, ranked_players, player_pool,
                   assigned_player_ids, pass1_lineup, weekVars, matchupVars, solverVars, auxVars>>

Next == Prepare \/ Pass1 \/ Pass2 \/ Pass3

Spec == Init /\ [][Next]_vars

\* The whole function, as its callers use it.
get_optimal_lineup(ps, settings) ==
    LET ranked == SortByRank(processed_players(ps))
        st1 == Pass1Loop(single_pos_players(ranked), settings, EmptyLineup(settings))
        pool2 == SortByRank(Unassigned(ranked, st1.assigned))
        st2 == Pass2Loop(1, pool2, settings, st1)
    IN Pass3Loop(Unassigned(pool2, st2.assigned), settings, st2.lineup)

----------------------------------------------------------------------------
\* The day loops over a week with simulated moves: get_matchup_stats
\* (src/app.py:834-948), _calculate_unused_spots (409-477), get_roster_data (1429-1471).

\* strftime('%Y-%m-%d') of day number i of a week that starts on October 30: the month
\* and the day of the month (the year is the same for all days).
DayStr(i) == IF i + 29 <= 31 THEN <<10, i + 29>> ELSE <<11, i - 2>>

\* Mutant: the date strings are compared by the day of the month alone.
StrLE_DayOnly(a, b) == a[2] <= b[2]

\* a <= b on two such strings: fields of fixed width compare field by field.
StrLE(a, b) == a[1] < b[1] \/ (a[1] = b[1] /\ a[2] <= b[2])

AllDays == {DayStr(i) : i \in 1..WeekLen}

\* {int(m['dropped_player']['player_id']) for m in simulated_moves if m['date'] <= day_str}
dropped_player_ids_today(moves, day_str) ==
    {moves[i].dropped_player.player_id :
        i \in {j \in DOMAIN moves : StrLE(moves[j].date, day_str)}}

\* The base players not dropped by day_str, then the added player of every move whose
\* date is <= day_str, in list order.
daily_roster(base, moves, day_str) ==
    LET dropped == dropped_player_ids_today(moves, day_str)
        applied == SelectSeq(moves, LAMBDA m : StrLE(m.date, day_str))
    IN SelectSeq(base, LAMBDA p : p.player_id \notin dropped)
       \o [i \in DOMAIN applied |-> applied[i].added_player]

\* p.get('game_dates_this_week') or p.get('game_dates_this_week_full', [])
game_dates(p) ==
    IF p.game_dates_this_week # {} THEN p.game_dates_this_week
    ELSE IF "game_dates_this_week_full" \in DOMAIN p THEN p.game_dates_this_week_full
         ELSE {}

players_playing_today(roster, day_str) ==
    SelectSeq(roster, LAMBDA p : day_str \in game_dates(p))

\* A record that get_optimal_lineup was given, as its holder sees it after the call.
AfterCall(p, pool) == IF p \in Range(pool) THEN CopyPlayer(p).caller ELSE p

\* One day of a loop: build the day's roster, take its players with a game, compute
\* the lineup. always_call: the roster endpoint calls get_optimal_lineup only for a
\* non-empty pool.
DayStep(day, always_call) ==
    LET roster == daily_roster(team1_ranked_roster, simulated_moves, DayStr(day))
        pool == players_playing_today(roster, DayStr(day))
        called == always_call \/ pool # <<>>
        given == IF called THEN pool ELSE <<>>
    IN /\ team1_lineup' = IF called THEN get_optimal_lineup(pool, lineup_settings)
                          ELSE team1_lineup
       /\ t1_daily_roster' = [i \in DOMAIN roster |-> AfterCall(roster[i], given)]
       /\ t1_players_today' = [i \in DOMAIN pool |-> AfterCall(pool[i], given)]
       /\ team1_ranked_roster' =
             [i \in DOMAIN team1_ranked_roster |-> AfterCall(team1_ranked_roster[i], given)]
       /\ simulated_moves' =
             [i \in DOMAIN simulated_moves |->
                 [simulated_moves[i] EXCEPT
                     !.added_player = AfterCall(simulated_moves[i].added_player, given)]]
       /\ roster_date' = day
       /\ current_date' = day + 1

\* get_matchup_stats, lines 838-902: the projection loop, today through the week's end.
ProjectionDay ==
    /\ wpc = "projection"
    /\ current_date <= WeekLen
    /\ DayStep(current_date, TRUE)
    /\ UNCHANGED <<lineup_settings, lineupVars, roster_before, today, wpc,
                   matchupVars, solverVars, auxVars>>

\* Lines 919-948: the game-count loop over every day of the week.
GameCountDay ==
    /\ wpc = "game_counts"
    /\ current_date <= WeekLen
    /\ DayStep(current_date, TRUE)
    /\ UNCHANGED <<lineup_settings, lineupVars, roster_before, today, wpc,
                   matchupVars, solverVars, auxVars>>

\* get_roster_data, lines 1429-1464: the daily optimal lineups.
RosterDay ==
    /\ wpc = "roster"
    /\ current_date <= WeekLen
    /\ DayStep(current_date, FALSE)
    /\ UNCHANGED <<lineup_settings, lineupVars, roster_before, today, wpc,
                   matchupVars, solverVars, auxVars>>

\* _calculate_unused_spots, lines 421-448, called last by both endpoints.
UnusedSpotsDay ==
    /\ wpc = "unused_spots"
    /\ current_date <= WeekLen
    /\ DayStep(current_date, TRUE)
    /\ UNCHANGED <<lineup_settings, lineupVars, roster_before, today, wpc,
                   matchupVars, solverVars, auxVars>>

\* A loop has handled the week's last day: on to the next loop, from the first day.
NextLoop ==
    /\ wpc \in {"projection", "game_counts", "roster", "unused_spots"}
    /\ current_date > WeekLen
    /\ wpc' = CASE wpc = "projection" -> "game_counts"
                [] wpc = "game_counts" -> "unused_spots"
                [] wpc = "roster" -> "unused_spots"
                [] wpc = "unused_spots" -> "done"
    /\ current_date' = 1
    /\ UNCHANGED <<lineup_settings, lineupVars, team1_ranked_roster, roster_before,
                   simulated_moves, today, roster_date, t1_daily_roster,
                   t1_players_today, team1_lineup, matchupVars, solverVars, auxVars>>

\* The requests of the model: a base roster of two players on the same schedule (every
\* day of the week, or its first day only, so that a day can have nobody playing), two
\* free agents that moves can add, at most MaxMoves moves dated within the week. A move
\* drops player 1 or a free agent.
WeekSettings == [pos \in Positions |-> 1]

BaseRosters ==
    {<<[player_id |-> 1, total_rank |-> None, eligible_positions |-> <<"C">>,
        game_dates_this_week |-> g],
       [player_id |-> 2, total_rank |-> 1, eligible_positions |-> <<"C", "D">>,
        game_dates_this_week |-> g]>> : g \in {AllDays, {DayStr(1)}}}

FreeAgent(id) ==
    [player_id |-> id, total_rank |-> IF id = 3 THEN 2 ELSE None,
     eligible_positions |-> IF id = 3 THEN <<"D">> ELSE <<"C", "D">>,
     game_dates_this_week |-> {}, game_dates_this_week_full |-> AllDays]

Moves ==
    {[date |-> DayStr(d), dropped_player |-> [player_id |-> x], added_player |-> FreeAgent(y)] :
        <<d, x, y>> \in {t \in (1..WeekLen) \X {1, 3, 4} \X (3..4) : t[2] # t[3]}}

MoveLists == UNION {[1..n -> Moves] : n \in 0..MaxMoves}

\* get_roster_data, lines 1393-1409: before its day loop every None rank of the roster
\* and of the added players has been replaced.
FallbackRank == 60
WithFallbackRank(p) ==
    IF p.total_rank = None THEN [p EXCEPT !.total_rank = FallbackRank] ELSE p

InitWeek ==
    /\ lineup_settings = WeekSettings
    /\ wpc \in {"projection", "roster"}
    /\ today \in {0, 2, WeekLen + 1}
    /\ \E base \in BaseRosters, moves \in MoveLists :
          IF wpc = "roster"
          THEN /\ team1_ranked_roster = [i \in DOMAIN base |-> WithFallbackRank(base[i])]
               /\ simulated_moves =
                     [i \in DOMAIN moves |->
                         [moves[i] EXCEPT !.added_player = WithFallbackRank(@)]]
          ELSE /\ team1_ranked_roster = base
               /\ simulated_moves = moves
    /\ roster_before = team1_ranked_roster
    /\ current_date = IF wpc = "projection" /\ today > 1 THEN today ELSE 1
    /\ roster_date = 0
    /\ t1_daily_roster = <<>>
    /\ t1_players_today = <<>>
    /\ team1_lineup = [pos \in DOMAIN lineup_settings |-> <<>>]
    /\ players = <<>>
    /\ pc = "idle"
    /\ ranked_players = <<>>
    /\ player_pool = <<>>
    /\ lineup = [pos \in DOMAIN lineup_settings |-> <<>>]
    /\ assigned_player_ids = {}
    /\ pass1_lineup = [pos \in DOMAIN lineup_settings |-> <<>>]
    /\ MatchupIdle
    /\ SolverIdle
    /\ AuxIdle

NextWeek == ProjectionDay \/ GameCountDay \/ RosterDay \/ UnusedSpotsDay \/ NextLoop

SpecWeek == InitWeek /\ [][NextWeek]_vars

----------------------------------------------------------------------------
\* Vocabulary of the properties.

StartedIds(lu) ==
    UNION {{lu[pos][i].player_id : i \in DOMAIN lu[pos]} : pos \in DOMAIN lu}

RECURSIVE CountStarters(_, _)
CountStarters(lu, positions) ==
    IF positions = {} THEN 0
    ELSE LET pos == CHOOSE q \in positions : TRUE
         IN Len(lu[pos]) + CountStarters(lu, positions \ {pos})

StartersCount(lu) == CountStarters(lu, DOMAIN lu)

\* The processed players that are in no position list.
Benched(lu) == {p \in Range(ranked_players) : p.player_id \notin StartedIds(lu)}

\* Placed by pass 1 or 2 and taken out by the upgrade pass; put in by the upgrade pass.
EvictedIds == assigned_player_ids \ StartedIds(lineup)
SwappedInIds == StartedIds(lineup) \ assigned_player_ids

IsFull(lu, pos) == Len(lu[pos]) = Capacity(lineup_settings, pos)

SetMax(S) == CHOOSE x \in S : \A y \in S : y <= x

\* The greatest number of players any assignment can start: each player benched or in
\* one of its eligible positions, no position over its capacity.
RECURSIVE MaxFill(_, _, _)
MaxFill(ps, k, remaining) ==
    IF k > Len(ps) THEN 0
    ELSE LET open == {pos \in Range(get_pos_str(ps[k])) :
                         pos \in DOMAIN remaining /\ remaining[pos] > 0}
         IN SetMax({MaxFill(ps, k + 1, remaining)} \cup
                   {1 + MaxFill(ps, k + 1, [remaining EXCEPT ![pos] = @ - 1]) : pos \in open})

----------------------------------------------------------------------------
\* C1: in every state of get_optimal_lineup, and so in the lineup it returns, also after
\* the upgrade pass has evicted players, no position holds more players than its
\* configured capacity; a position of capacity 0 stays empty.
C1_CapacityRespected ==
    \A pos \in DOMAIN lineup : Len(lineup[pos]) <= Capacity(lineup_settings, pos)

\* C1 witness: a returned lineup in which the upgrade pass evicted a player, one position
\* is filled to a capacity of 2 and another position has capacity 0.
C1_Witness ==
    /\ pc = "done"
    /\ EvictedIds # {}
    /\ \E pos \in DOMAIN lineup : Len(lineup[pos]) = 2 /\ lineup_settings[pos] = 2
    /\ \E pos \in DOMAIN lineup : lineup_settings[pos] = 0

\* C2: every player listed under a position is eligible for that position, and the
\* position is a configured one, whichever pass put the player there.
C2_EligiblePositionsOnly ==
    \A pos \in DOMAIN lineup :
        /\ pos \in DOMAIN lineup_settings
        /\ \A i \in DOMAIN lineup[pos] : pos \in Range(get_pos_str(lineup[pos][i]))

\* C2 witness: a returned lineup holding a player placed by pass 2 and a player swapped
\* in by the upgrade pass, for a pool of which pass 1 had placed a player too.
C2_Witness ==
    /\ pc = "done"
    /\ StartedIds(pass1_lineup) # {}
    /\ \E pos \in DOMAIN lineup : \E i \in DOMAIN lineup[pos] :
          /\ ~IsSinglePos(lineup[pos][i])
          /\ lineup[pos][i].player_id \in assigned_player_ids
    /\ SwappedInIds # {}

\* C3: with pairwise distinct player ids in the pool, no id occurs twice in the lineup,
\* neither in two position lists nor twice in one list, at any point of the three passes.
C3_NoDuplicateAssignment ==
    (\A i, j \in DOMAIN players : i # j => players[i].player_id # players[j].player_id)
    => /\ \A pos \in DOMAIN lineup : \A i, j \in DOMAIN lineup[pos] :
              i # j => lineup[pos][i].player_id # lineup[pos][j].player_id
       /\ \A pos, other \in DOMAIN lineup : \A i \in DOMAIN lineup[pos] :
              \A j \in DOMAIN lineup[other] :
                  pos # other => lineup[pos][i].player_id # lineup[other][j].player_id

\* C3 witness: a returned lineup with starters in two positions, one of them swapped in
\* by the upgrade pass (which leaves the assigned-id set as pass 2 left it).
C3_Witness ==
    /\ pc = "done"
    /\ SwappedInIds # {}
    /\ EvictedIds # {}
    /\ \E pos, other \in DOMAIN lineup :
          pos # other /\ lineup[pos] # <<>> /\ lineup[other] # <<>>

\* C4 as claimed: the number of players started equals the greatest number any
\* assignment within capacities and eligibility can start.
C4_StartsAreMaximum ==
    pc = "done" => StartersCount(lineup) = MaxFill(players, 1, lineup_settings)

\* C4 as amended: the number started never exceeds that maximum, and the lineup is
\* maximal: no benched player has an eligible position with an open slot.
C4_StartsAreMaximal ==
    pc = "done" =>
        /\ StartersCount(lineup) <= MaxFill(players, 1, lineup_settings)
        /\ \A b \in Benched(lineup) : \A pos \in Range(get_pos_str(b)) :
               ~HasOpenSlot(lineup, lineup_settings, pos)

\* C4 witness: a returned lineup that starts fewer players than the maximum.
C4_Witness ==
    /\ pc = "done"
    /\ StartersCount(lineup) < MaxFill(players, 1, lineup_settings)

\* A single-eligibility player whose one position is configured with capacity > 0.
SingleWithSlot(p) ==
    /\ IsSinglePos(p)
    /\ Capacity(lineup_settings, get_pos_str(p)[1]) > 0

\* q is processed before p by pass 1: better rank, or equal rank and earlier in the input
\* (input order is id order in the pools of the model).
Before(q, p) ==
    \/ q.total_rank < p.total_rank
    \/ q.total_rank = p.total_rank /\ q.player_id < p.player_id

\* p's position was used up in pass 1 by other single-eligibility players ahead of p.
CrowdedOutInPass1(p) ==
    LET pos == get_pos_str(p)[1]
    IN /\ Len(pass1_lineup[pos]) = Capacity(lineup_settings, pos)
       /\ \A i \in DOMAIN pass1_lineup[pos] :
             LET q == pass1_lineup[pos][i]
             IN q.player_id # p.player_id /\ IsSinglePos(q) /\ Before(q, p)

\* C5 as claimed: a single-eligibility player is benched in the returned lineup only if
\* pass 1 used up its position with other single-eligibility players ahead of it, and a
\* player placed by pass 1 is still in the lineup after pass 2 and after the upgrade pass.
C5_SinglesNeverCrowdedOut ==
    /\ pc = "done" =>
          \A p \in Benched(lineup) : SingleWithSlot(p) => CrowdedOutInPass1(p)
    /\ pc \in {"pass3", "done"} =>
          StartedIds(pass1_lineup) \subseteq StartedIds(lineup)

\* p was placed by pass 1 and the upgrade pass gave its slot to a player of strictly
\* better rank that pass 2 had left on the bench.
EvictedByUpgrade(p) ==
    LET pos == get_pos_str(p)[1]
    IN /\ p.player_id \in StartedIds(pass1_lineup)
       /\ IsFull(lineup, pos)
       /\ \E i \in DOMAIN lineup[pos] :
             /\ lineup[pos][i].player_id \in SwappedInIds
             /\ lineup[pos][i].total_rank < p.total_rank

\* C5 as amended: a single-eligibility player is benched in the returned lineup only if
\* pass 1 used up its position with other single-eligibility players ahead of it, or the
\* upgrade pass evicted it for a strictly better-ranked benched player; pass 2 removes no
\* player placed by pass 1.
C5_SinglesBenchedOnlyByRank ==
    /\ pc = "done" =>
          \A p \in Benched(lineup) :
              SingleWithSlot(p) => CrowdedOutInPass1(p) \/ EvictedByUpgrade(p)
    /\ pc = "pass3" => StartedIds(pass1_lineup) \subseteq StartedIds(lineup)

\* C5 witness: a returned lineup with one single-eligibility player crowded out in
\* pass 1 and another evicted by the upgrade pass.
C5_Witness ==
    /\ pc = "done"
    /\ \E p \in Benched(lineup) : SingleWithSlot(p) /\ CrowdedOutInPass1(p)
    /\ \E p \in Benched(lineup) : SingleWithSlot(p) /\ EvictedByUpgrade(p)

\* C6: in the returned lineup no swap of the upgrade rule is left: for every benched
\* player, evicted players included, and each of its eligible positions that has starters,
\* the worst-ranked starter there has a rank <= the benched player's rank.
C6_NoUpgradeLeft ==
    pc = "done" =>
        \A b \in Benched(lineup) : \A pos \in Range(get_pos_str(b)) :
            (pos \in DOMAIN lineup /\ lineup[pos] # <<>>)
            => worst_starter_in_pos(lineup[pos]).total_rank <= b.total_rank

\* C6 witness: a returned lineup whose bench holds a player the upgrade pass evicted and
\* a player that never started, each eligible for a position that has starters.
C6_Witness ==
    /\ pc = "done"
    /\ \E b \in Benched(lineup) :
          /\ b.player_id \in EvictedIds
          /\ \E pos \in Range(get_pos_str(b)) : lineup[pos] # <<>>
    /\ \E b \in Benched(lineup) :
          /\ b.player_id \notin assigned_player_ids
          /\ \E pos \in Range(get_pos_str(b)) : lineup[pos] # <<>>

\* C7: for {C:2, D:2, G:1}, three C-only players of rank 5, 10, 15 and a C,D player of
\* rank 1, pass 2 leaves and the function returns C = the rank-5 and rank-10 players,
\* D = the rank-1 player, G empty; the rank-15 player is benched.
C7_Scenario ==
    (players = ScenarioPlayers /\ lineup_settings = ScenarioSettings
        /\ pc \in {"pass3", "done"})
    => /\ lineup["C"] = <<ScenarioPlayers[1], ScenarioPlayers[2]>>
       /\ lineup["D"] = <<ScenarioPlayers[4]>>
       /\ lineup["G"] = <<>>
       /\ Benched(lineup) = {ScenarioPlayers[3]}

\* C7 witness: get_optimal_lineup has returned for the scenario's pool and settings.
C7_Witness ==
    players = ScenarioPlayers /\ lineup_settings = ScenarioSettings /\ pc = "done"

----------------------------------------------------------------------------
\* Properties of the day loops.

RosterIds(roster) == {roster[i].player_id : i \in DOMAIN roster}

\* The day number a move's date string stands for.
MoveDay(m) == CHOOSE d \in 1..WeekLen : DayStr(d) = m.date

\* One simulated move that drops a base-roster player and adds a player not on the roster.
SingleMove ==
    /\ Len(simulated_moves) = 1
    /\ simulated_moves[1].dropped_player.player_id \in RosterIds(roster_before)
    /\ simulated_moves[1].added_player.player_id \notin RosterIds(roster_before)

\* C8: with a single move of effective date D that drops base player X and adds Y, the
\* roster built for a day holds X and not Y when the day is before D, and Y and not X
\* when the day is D or later, in each of the four day loops.
C8_SingleMoveOverlay ==
    (SingleMove /\ roster_date >= 1) =>
        LET m == simulated_moves[1]
            X == m.dropped_player.player_id
            Y == m.added_player.player_id
            ids == RosterIds(t1_daily_roster)
        IN IF roster_date < MoveDay(m)
           THEN X \in ids /\ Y \notin ids
           ELSE Y \in ids /\ X \notin ids

\* C8 witness: the unused-slot analyzer has built the roster of the week's last day,
\* which is the effective date of the single move, and the added player is on it.
C8_Witness ==
    /\ SingleMove
    /\ wpc = "unused_spots"
    /\ MoveDay(simulated_moves[1]) = WeekLen
    /\ roster_date = WeekLen
    /\ simulated_moves[1].added_player.player_id \in RosterIds(t1_daily_roster)

\* C9: for every move whose date is on or before the day a roster was built for, the
\* player it drops is absent from that roster, unless another move of the same or a
\* later date (applied by that day) adds that player; it makes no difference whether the
\* dropped player is a base player or was added by an earlier move.
C9_DroppedPlayersAbsent ==
    roster_date >= 1 =>
        \A i \in DOMAIN simulated_moves :
            LET m == simulated_moves[i]
                added_back ==
                    \E j \in DOMAIN simulated_moves :
                        /\ j # i
                        /\ simulated_moves[j].added_player.player_id
                               = m.dropped_player.player_id
                        /\ MoveDay(simulated_moves[j]) >= MoveDay(m)
                        /\ MoveDay(simulated_moves[j]) <= roster_date
            IN (MoveDay(m) <= roster_date /\ ~added_back)
               => m.dropped_player.player_id \notin RosterIds(t1_daily_roster)

----------------------------------------------------------------------------
\* The request handlers on a league snapshot: get_matchup_stats step by step,
\* get_roster_data and _get_live_matchup_stats each as one step after the lookups.
\* (SpecWeek above follows the same day loops under simulated moves and leaves the
\* statistics out; here the moves list is the default, empty one.)
\*
\* stat_value is REAL: the model counts every statistic in hundredths (100 is one
\* goal, 6000 is sixty minutes), and a ratio statistic (GAA) is the fraction
\* <<numerator, denominator>> in lowest terms.

\* Longest week of the model's snapshots, in days.
MaxDays == 8

Hundredths(x) == x * 100

RECURSIVE GCD(_, _)
GCD(a, b) == IF b = 0 THEN a ELSE GCD(b, a % b)

\* Python's a / b for a >= 0 and b > 0.
Fraction(a, b) == LET g == GCD(a, b) IN <<a \div g, b \div g>>

\* The number 0 where the code's result is otherwise a quotient.
FractionZero == <<0, 1>>

\* q + v for a quotient q and a statistic v in hundredths.
FractionAdd(q, v) == Fraction(q[1] * 100 + v * q[2], q[2] * 100)

\* The integer nearest to a / b, a tie going to the even one, as round() decides.
RoundDiv(a, b) ==
    LET q == a \div b
        r == a % b
    IN IF 2 * r < b THEN q
       ELSE IF 2 * r > b THEN q + 1
       ELSE IF q % 2 = 0 THEN q ELSE q + 1

\* round(gaa, 2) of a quotient, and round(value, 1) of a statistic in hundredths.
Round2_Truncate(q) == Fraction((q[1] * 100) \div q[2], 100)
Round2(q) == Fraction(RoundDiv(q[1] * 100, q[2]), 100)
Round1(v) == RoundDiv(v, 10) * 10

\* Lines 767-771.
required_cats == {"SV", "SA", "GA", "TOI/G"}
all_categories_to_fetch(scoring_categories) == scoring_categories \cup required_cats
projection_cats(scoring_categories) ==
    all_categories_to_fetch(scoring_categories) \ {"TOI/G", "SVpct"}

RECURSIVE SumStatValue(_)
SumStatValue(rows) ==
    IF rows = {} THEN 0
    ELSE LET r == CHOOSE x \in rows : TRUE
         IN r.stat_value + SumStatValue(rows \ {r})

\* Lines 778-802: the grouped query on daily_player_stats (date_ is text and is
\* compared as text) and the dict of one team's totals over it.
live_stats_raw(rows, start_date_str, end_date_str, team_id, category) ==
    {r \in rows : /\ StrLE(start_date_str, r.date_)
                  /\ StrLE(r.date_, end_date_str)
                  /\ r.team_id = team_id
                  /\ r.category = category}

live_totals(rows, start_date_str, end_date_str, team_id, categories) ==
    [cat \in categories |->
        SumStatValue(live_stats_raw(rows, start_date_str, end_date_str, team_id, cat))]

\* Lines 805-822: shutout credit, then GAA from the summed components. (No league of
\* the model scores SVpct, whose key is then absent.)
live_derived(live_stats) ==
    LET toi == IF "SHO" \in DOMAIN live_stats /\ live_stats["SHO"] > 0
               THEN live_stats["TOI/G"] + live_stats["SHO"] * 60
               ELSE live_stats["TOI/G"]
        fixed == [live_stats EXCEPT !["TOI/G"] = toi]
    IN IF "GAA" \in DOMAIN fixed
       THEN [fixed EXCEPT !["GAA"] = IF toi > 0 THEN Fraction(fixed["GA"] * 60, toi)
                                     ELSE FractionZero]
       ELSE fixed

\* _get_ranked_roster_for_week, lines 336-407: the team's active players with the
\* game dates of their club that fall in the week, as date strings.
\* Lines 397-403: the sum of the player's category ranks over the scoring categories,
\* a null rank counting as 0, when joined_player_stats has a row for the player; None
\* otherwise. (round(., 2) leaves the whole numbers of the model as they are.)
cat_rank_column(cat) == cat \o "_cat_rank"

RECURSIVE SumOfRanks(_, _)
SumOfRanks(row, cats) ==
    IF cats = {} THEN 0
    ELSE LET cat == CHOOSE x \in cats : TRUE
             rank_value == row[cat_rank_column(cat)]
         IN (IF rank_value = None THEN 0 ELSE rank_value) + SumOfRanks(row, cats \ {cat})

total_rank(snap, player_id) ==
    IF player_id \notin DOMAIN snap.joined_player_stats THEN None
    ELSE SumOfRanks(snap.joined_player_stats[player_id], snap.scoring)

_get_ranked_roster_for_week(snap, team_id, week_num) ==
    LET week == snap.weeks[week_num]
        roster == snap.rosters[team_id]
    IN [i \in DOMAIN roster |->
           [player_id |-> roster[i].player_id,
            total_rank |-> total_rank(snap, roster[i].player_id),
            eligible_positions |-> roster[i].eligible_positions,
            game_dates_this_week |->
                {DayStr(d) : d \in {g \in roster[i].schedule :
                                       week.start_date <= g /\ g <= week.end_date}}]]

\* Lines 864-865: the players of a lineup, position after position.
RECURSIVE StartersIn(_, _)
StartersIn(a_lineup, positions) ==
    IF positions = {} THEN <<>>
    ELSE LET pos == CHOOSE x \in positions : TRUE
         IN a_lineup[pos] \o StartersIn(a_lineup, positions \ {pos})

starters(a_lineup) == StartersIn(a_lineup, DOMAIN a_lineup)

\* Lines 878-888: one starter's projection added to a row dict. A starter without a
\* row in joined_player_stats adds nothing; a null or missing column counts as 0.
stat_val(player_proj, category) ==
    IF category \in DOMAIN player_proj /\ player_proj[category] # None
    THEN player_proj[category] ELSE 0

add_starter(row, starter, player_avg_stats, cats) ==
    IF starter.player_id \notin DOMAIN player_avg_stats THEN row
    ELSE LET player_proj == player_avg_stats[starter.player_id]
         IN [cat \in DOMAIN row |->
                IF cat \in cats
                THEN IF cat = "GAA" THEN FractionAdd(row[cat], stat_val(player_proj, cat))
                     ELSE row[cat] + stat_val(player_proj, cat)
                ELSE IF cat = "TOI/G" /\ "G" \in Range(starter.eligible_positions)
                     THEN row[cat] + Hundredths(60)
                     ELSE row[cat]]

RECURSIVE add_starters(_, _, _, _)
add_starters(row, team_starters, player_avg_stats, cats) ==
    IF team_starters = <<>> THEN row
    ELSE add_starters(add_starter(row, Head(team_starters), player_avg_stats, cats),
                      Tail(team_starters), player_avg_stats, cats)

\* Lines 905-918: GAA once more from the summed components, then the rounding.
final_row(row_stats) ==
    LET gaa == IF row_stats["TOI/G"] > 0
               THEN Fraction(row_stats["GA"] * 60, row_stats["TOI/G"])
               ELSE FractionZero
    IN [cat \in DOMAIN row_stats |->
           IF cat = "GAA" THEN Round2(gaa) ELSE Round1(row_stats[cat])]

\* _calculate_unused_spots, lines 417-475. A value of open_slots is an int, the
\* placeholder '-' or an int followed by '*': one record, with the text marks as flags.
position_order == <<"C", "LW", "RW", "D", "G">>

OpenInt(n) == [n |-> n, star |-> FALSE, dash |-> FALSE]
OpenDash == [n |-> 0, star |-> FALSE, dash |-> TRUE]
is_str(value) == value.star \/ value.dash

\* dict.get with a default.
get(d, key, default) == IF key \in DOMAIN d THEN d[key] ELSE default

\* Lines 450-453.
initial_open_slots(day_date, today_date, settings, daily_lineup) ==
    [pos \in Range(position_order) |->
        IF day_date < today_date THEN OpenDash
        ELSE OpenInt(get(settings, pos, 0) - Len(get(daily_lineup, pos, <<>>)))]

\* Lines 464-471: the first position of the player's eligible positions that is a key
\* of open_slots with a numeric value above 0 stars the slot.
could_move_NotBelowZero(open_slots, player) ==
    \E k \in DOMAIN player.eligible_positions :
        LET other_pos == player.eligible_positions[k]
        IN other_pos \in DOMAIN open_slots /\ open_slots[other_pos].n >= 0
could_move(open_slots, player) ==
    \E k \in DOMAIN player.eligible_positions :
        LET other_pos == player.eligible_positions[k]
        IN other_pos \in DOMAIN open_slots /\ open_slots[other_pos].n > 0

\* Lines 456-473, for the positions of the lineup one after the other.
RECURSIVE asterisk_loop(_, _, _)
asterisk_loop(open_slots, daily_lineup, positions) ==
    IF positions = {} THEN open_slots
    ELSE LET pos == CHOOSE x \in positions : TRUE
             rest == positions \ {pos}
         IN IF pos \notin Range(position_order)
            THEN asterisk_loop(open_slots, daily_lineup, rest)
            ELSE IF /\ ~is_str(open_slots[pos])
                    /\ open_slots[pos].n = 0
                    /\ \E k \in DOMAIN daily_lineup[pos] :
                          could_move(open_slots, daily_lineup[pos][k])
                 THEN asterisk_loop([open_slots EXCEPT ![pos].star = TRUE],
                                    daily_lineup, rest)
                 ELSE asterisk_loop(open_slots, daily_lineup, rest)

open_slots_of_day(day_date, today_date, settings, daily_lineup) ==
    asterisk_loop(initial_open_slots(day_date, today_date, settings, daily_lineup),
                  daily_lineup, DOMAIN daily_lineup)

\* Line 423 and 475: the report is keyed by strftime('%a') of the date. The first day of
\* a week is a Monday.
Weekdays == <<"Mon", "Tue", "Wed", "Thu", "Fri", "Sat", "Sun">>
day_name(day) == Weekdays[((day - 1) % 7) + 1]

store(d, key, value) == [k \in DOMAIN d \cup {key} |-> IF k = key THEN value ELSE d[k]]

\* The whole of _calculate_unused_spots for a roster without simulated moves.
RECURSIVE _calculate_unused_spots(_, _, _, _, _)
_calculate_unused_spots(day, end_date, roster, settings, today_date) ==
    IF day > end_date THEN <<>>
    ELSE LET earlier == _calculate_unused_spots(day, end_date - 1, roster, settings, today_date)
             pool == players_playing_today(roster, DayStr(end_date))
         IN store(earlier, day_name(end_date),
                  open_slots_of_day(end_date, today_date, settings,
                                    get_optimal_lineup(pool, settings)))

\* Lines 788-797: the stats dict a request starts from; nothing of an earlier request
\* is in it.
initial_stats_Previous(categories, previous) ==
    IF previous # <<>> THEN previous
    ELSE [team1 |-> [live |-> [cat \in categories |-> 0], row |-> <<>>],
          team2 |-> [live |-> [cat \in categories |-> 0], row |-> <<>>],
          game_counts |-> [team1_total |-> 0, team2_total |-> 0,
                           team1_remaining |-> 0, team2_remaining |-> 0]]
initial_stats(categories, previous) ==
    [team1 |-> [live |-> [cat \in categories |-> 0], row |-> <<>>],
     team2 |-> [live |-> [cat \in categories |-> 0], row |-> <<>>],
     game_counts |-> [team1_total |-> 0, team2_total |-> 0,
                      team1_remaining |-> 0, team2_remaining |-> 0]]

\* Lines 799-802: the totals the query returned, written over the initial zeros.
live_stats_of(initial_live, rows, start_date_str, end_date_str, team_id) ==
    [cat \in DOMAIN initial_live |->
        LET found == live_stats_raw(rows, start_date_str, end_date_str, team_id, cat)
        IN IF found = {} THEN initial_live[cat] ELSE SumStatValue(found)]

\* The responses: jsonify(...) with status 200, or jsonify({'error': ...}), 404.
week_text(week_num) == <<"1", "2", "3">>[week_num]
not_found_Unnamed(what, id) == [status |-> 404, error |-> <<what, "">>, body |-> <<>>]
not_found(what, id) == [status |-> 404, error |-> <<what, id>>, body |-> <<>>]
ok(body) == [status |-> 200, error |-> <<>>, body |-> body]

\* Lines 740-756 and 1263-1274: the lookups, in the order the handler does them; the
\* result is the response that ends the request, or <<>> when everything was found.
lookup(names, week_num, snap) ==
    IF \E i \in DOMAIN names : names[i] \notin DOMAIN snap.teams
    THEN LET i == CHOOSE k \in DOMAIN names :
                     /\ names[k] \notin DOMAIN snap.teams
                     /\ \A j \in 1..(k - 1) : names[j] \in DOMAIN snap.teams
         IN not_found("Team not found: ", names[i])
    ELSE IF week_num \notin DOMAIN snap.weeks
         THEN not_found("Week not found: ", week_text(week_num))
         ELSE <<>>

\* The snapshots of the model. Two teams; team 1 has three skaters and a goalie, team 2
\* two skaters. A club's schedule repeats every four days, and on every fourth day
\* nobody of team 1 plays. Player 3 has no row in joined_player_stats, player 6 has a
\* row of nulls.
Teams == ("A" :> 1) @@ ("B" :> 2)

ScheduleDays == 0..(MaxDays + 2)

RosterRow(id, elig, residues) ==
    [player_id |-> id, eligible_positions |-> elig,
     schedule |-> {d \in ScheduleDays : d % 4 \in residues}]

Rosters ==
    (1 :> << RosterRow(1, <<"C", "D">>, {1, 2, 3}),
             RosterRow(2, <<"C", "D">>, {1, 2}),
             RosterRow(3, <<"D">>, {2, 3}),
             RosterRow(4, <<"G">>, {1, 3}) >>)
    @@ (2 :> << RosterRow(5, <<"C">>, {1, 3}),
                RosterRow(6, <<"D">>, {0, 1, 2, 3}) >>)

ProjectionColumns == {"G", "GA", "SV", "SA", "SHO", "GAA"}

\* The category-rank columns of joined_player_stats, one per category a league can score.
CatRankColumns == {cat_rank_column(cat) : cat \in {"G", "GAA", "SHO"}}

ProjectionRow(values) ==
    [col \in ProjectionColumns \cup CatRankColumns |->
        IF col \in DOMAIN values THEN values[col] ELSE None]

\* Category ranks are whole numbers here: player 1 ranks 10th in goals, player 2 20th,
\* the goalie 20th in GAA and in shutouts; player 6 has a row without any rank.
JoinedPlayerStats ==
    (1 :> ProjectionRow(("G" :> 32) @@ ("G_cat_rank" :> 10)))
    @@ (2 :> ProjectionRow(("G" :> 24) @@ ("G_cat_rank" :> 20)))
    @@ (4 :> ProjectionRow(("GA" :> 250) @@ ("SV" :> 2700) @@ ("SA" :> 2950)
                           @@ ("SHO" :> 6) @@ ("GAA" :> 250)
                           @@ ("GAA_cat_rank" :> 20) @@ ("SHO_cat_rank" :> 20)))
    @@ (5 :> ProjectionRow(("G" :> 40) @@ ("G_cat_rank" :> 10)))
    @@ (6 :> ProjectionRow(<<>>))

StatRow(day, team_id, player_id, category, value) ==
    [day |-> day, date_ |-> DayStr(day), team_id |-> team_id, player_id |-> player_id,
     category |-> category, stat_value |-> value]

\* Recorded actuals: a goalie's first day for team 1 and two rows of team 2 (goals
\* against without ice time); two more goal rows and the rows of a shutout, which a
\* snapshot may or may not hold.
FixedStatRows ==
    { StatRow(1, 1, 4, "GA", 100), StatRow(1, 1, 4, "TOI/G", 4500),
      StatRow(1, 2, 5, "G", 200), StatRow(1, 2, 6, "GA", 100) }

OptionalStatRows ==
    { StatRow(1, 1, 1, "G", 100), StatRow(2, 1, 1, "G", 100) }

ShutoutStatRows ==
    { StatRow(2, 1, 4, "SHO", 100), StatRow(2, 1, 4, "TOI/G", 0) }

SlotConfigs ==
    { ("C" :> 2) @@ ("D" :> 2) @@ ("G" :> 1),
      ("C" :> 1) @@ ("D" :> 1) @@ ("G" :> 1),
      ("C" :> 0) @@ ("D" :> 0) @@ ("G" :> 0),
      <<>> }

\* The scoring tables: with goalie categories, skater goals only, and GAA without
\* shutouts.
ScoringChoices == { {"G", "GAA", "SHO"}, {"G"}, {"G", "GAA"} }

\* daily_player_stats holds rows up to today (db_builder.py, lines 212-230, stores the
\* rows of the dates after the last one processed and of today again).
Snapshot(settings, end_date, scoring, optional_rows, today_date) ==
    [teams |-> Teams,
     weeks |-> (1 :> [start_date |-> 1, end_date |-> end_date]),
     scoring |-> scoring,
     lineup_settings |-> settings,
     rosters |-> Rosters,
     joined_player_stats |-> JoinedPlayerStats,
     daily_player_stats |->
         {r \in FixedStatRows \cup optional_rows : r.day <= today_date}]

\* data.get('categories'): the list of checked categories, or nothing.
NotSent == [sent |-> FALSE, list |-> {}]
Sent(list) == [sent |-> TRUE, list |-> list]

\* data.get('simulated_moves', []), line 719: a move gives its date, the dropped player
\* and the added player as the client holds them (a free agent has no
\* game_dates_this_week and carries game_dates_this_week_full).
SimulatedMove(day, dropped_id, added_id, added_rank, added_positions) ==
    [date |-> DayStr(day), dropped_player |-> [player_id |-> dropped_id],
     added_player |-> [player_id |-> added_id, total_rank |-> added_rank,
                       eligible_positions |-> added_positions,
                       game_dates_this_week |-> {},
                       game_dates_this_week_full |-> {DayStr(d) : d \in 1..MaxDays}]]

\* The lists of simulated moves of a request: none; team 2's player 5 dropped and team
\* 2's player 6 added on the first date; team 1's player 1 dropped for team 2's player 5
\* on the second date, after the first move.
SimulatedMoveLists ==
    { <<>>,
      << SimulatedMove(1, 5, 6, 0, <<"D">>) >>,
      << SimulatedMove(1, 5, 6, 0, <<"D">>), SimulatedMove(2, 1, 5, 10, <<"C">>) >> }

Requests ==
    { [endpoint |-> "matchup_team_stats", team1_name |-> n1, team2_name |-> n2, week |-> w,
       categories |-> NotSent, simulated_moves |-> <<>>] :
          <<n1, n2, w>> \in { <<"A", "B", 1>>, <<"Z", "B", 1>>, <<"A", "Z", 1>>,
                              <<"A", "B", 2>> } }
    \cup { [endpoint |-> "matchup_team_stats", team1_name |-> "A", team2_name |-> "B",
            week |-> 1, categories |-> NotSent, simulated_moves |-> moves] :
              moves \in SimulatedMoveLists }
    \cup { [endpoint |-> "roster_data", team1_name |-> n1, team2_name |-> "", week |-> w,
            categories |-> NotSent, simulated_moves |-> <<>>] :
              <<n1, w>> \in { <<"A", 1>>, <<"Z", 1>>, <<"A", 2>> } }
    \cup { [endpoint |-> "bench_points", team1_name |-> "A", team2_name |-> "B", week |-> 1,
            categories |-> NotSent, simulated_moves |-> <<>>] }
    \cup { [endpoint |-> e, team1_name |-> "A",
            team2_name |-> IF e = "roster_data" THEN "" ELSE "B", week |-> 1,
            categories |-> Sent({"G"}), simulated_moves |-> <<>>] :
              e \in {"matchup_team_stats", "roster_data"} }

InitMatchup ==
    /\ request \in Requests
    /\ today \in {0, 2, MaxDays + 1}
    /\ \E settings \in SlotConfigs, end_date \in 0..MaxDays, scoring \in ScoringChoices,
          goals \in {{}, OptionalStatRows}, shutout \in {{}, ShutoutStatRows} :
          snapshot = Snapshot(settings, end_date, scoring, goals \cup shutout, today)
    /\ mpc = "lookup"
    /\ run = 1
    /\ stats = <<>>
    /\ team2_ranked_roster = <<>>
    /\ team2_lineup = <<>>
    /\ unused_spots_data = <<>>
    /\ response = <<>>
    /\ first_response = <<>>
    /\ lineup_settings = <<>>
    /\ team1_ranked_roster = <<>>
    /\ roster_before = <<>>
    /\ simulated_moves = request.simulated_moves
    /\ wpc = "idle"
    /\ current_date = 0
    /\ roster_date = 0
    /\ t1_daily_roster = <<>>
    /\ t1_players_today = <<>>
    /\ team1_lineup = <<>>
    /\ players = <<>>
    /\ pc = "idle"
    /\ ranked_players = <<>>
    /\ player_pool = <<>>
    /\ lineup = <<>>
    /\ assigned_player_ids = {}
    /\ pass1_lineup = <<>>
    /\ SolverIdle
    /\ AuxIdle

\* The locals of a request are gone when the next one starts. (stats keeps the dict of
\* the request before until line 788 builds the new one.)
RequestLocalsReset ==
    /\ team2_ranked_roster' = <<>>
    /\ team2_lineup' = <<>>
    /\ unused_spots_data' = <<>>
    /\ lineup_settings' = <<>>
    /\ team1_ranked_roster' = <<>>
    /\ roster_before' = <<>>
    /\ current_date' = 0
    /\ roster_date' = 0
    /\ t1_daily_roster' = <<>>
    /\ t1_players_today' = <<>>
    /\ team1_lineup' = <<>>

team2_players_today(roster, day_str) ==
    SelectSeq(roster, LAMBDA p : day_str \in p.game_dates_this_week)

\* Line 874-876: the rows of joined_player_stats of the day's starters.
player_avg_stats(snap, all_starters) ==
    [id \in {all_starters[i].player_id : i \in DOMAIN all_starters}
            \cap DOMAIN snap.joined_player_stats |-> snap.joined_player_stats[id]]

\* Line 835: max(today, start_date_obj).
projection_start_date_WeekStart(today_date, start_date) == start_date
projection_start_date(today_date, start_date) ==
    IF today_date > start_date THEN today_date ELSE start_date

\* get_matchup_stats, lines 740-774: team ids, week dates, lineup settings.
Lookup ==
    /\ mpc = "lookup"
    /\ request.endpoint = "matchup_team_stats"
    /\ LET failure == lookup(<<request.team1_name, request.team2_name>>, request.week, snapshot)
       IN IF failure # <<>>
          THEN /\ response' = failure
               /\ mpc' = "done"
               /\ UNCHANGED lineup_settings
          ELSE /\ lineup_settings' = snapshot.lineup_settings
               /\ mpc' = "live_stats"
               /\ UNCHANGED response
    /\ UNCHANGED <<request, snapshot, run, stats, team2_ranked_roster, team2_lineup,
                   unused_spots_data, first_response, lineupVars, weekVars, solverVars, auxVars>>

\* Lines 777-837: live totals, their derived statistics, the row dicts as copies of
\* them, the two rosters, and the first date of the projection.
LiveStats ==
    /\ mpc = "live_stats"
    /\ LET week == snapshot.weeks[request.week]
           cats == all_categories_to_fetch(snapshot.scoring)
           fresh == initial_stats(cats, stats)
           live(team_key, name) ==
               live_derived(live_stats_of(fresh[team_key].live, snapshot.daily_player_stats,
                                          DayStr(week.start_date), DayStr(week.end_date),
                                          snapshot.teams[name]))
           live1 == live("team1", request.team1_name)
           live2 == live("team2", request.team2_name)
       IN /\ stats' = [fresh EXCEPT !.team1 = [live |-> live1, row |-> live1],
                                    !.team2 = [live |-> live2, row |-> live2]]
          /\ team1_ranked_roster' =
                _get_ranked_roster_for_week(snapshot, snapshot.teams[request.team1_name],
                                            request.week)
          /\ team2_ranked_roster' =
                _get_ranked_roster_for_week(snapshot, snapshot.teams[request.team2_name],
                                            request.week)
          /\ current_date' = projection_start_date(today, week.start_date)
    /\ roster_before' = team1_ranked_roster'
    /\ mpc' = "projection"
    /\ UNCHANGED <<request, snapshot, run, team2_lineup, unused_spots_data, response,
                   first_response, lineup_settings, lineupVars, simulated_moves, today, wpc,
                   roster_date, t1_daily_roster, t1_players_today, team1_lineup, solverVars, auxVars>>

\* The two lineups of a day; team 1's is built by DayStep (lines 841-857), team 2's from
\* its ranked roster (lines 858 and 861).
BothLineups_MovesOnBothSides(day) ==
    /\ DayStep(day, TRUE)
    /\ team2_lineup' =
          get_optimal_lineup(
              players_playing_today(daily_roster(team2_ranked_roster, simulated_moves,
                                                 DayStr(day)), DayStr(day)),
              lineup_settings)
BothLineups(day) ==
    /\ DayStep(day, TRUE)
    /\ team2_lineup' = get_optimal_lineup(team2_players_today(team2_ranked_roster, DayStr(day)),
                                          lineup_settings)

\* Lines 838-902: one date of the projection loop.
RowProjectionDay ==
    /\ mpc = "projection"
    /\ current_date <= snapshot.weeks[request.week].end_date
    /\ BothLineups(current_date)
    /\ LET team1_starters == starters(team1_lineup')
           team2_starters == starters(team2_lineup')
           avg == player_avg_stats(snapshot, team1_starters \o team2_starters)
           cats == projection_cats(snapshot.scoring)
       IN stats' = [stats EXCEPT
                       !.game_counts.team1_remaining = @ + Len(team1_starters),
                       !.game_counts.team2_remaining = @ + Len(team2_starters),
                       !.team1.row = add_starters(@, team1_starters, avg, cats),
                       !.team2.row = add_starters(@, team2_starters, avg, cats)]
    /\ UNCHANGED <<request, snapshot, mpc, run, team2_ranked_roster, unused_spots_data,
                   response, first_response, lineup_settings, lineupVars, roster_before,
                   today, wpc, solverVars, auxVars>>

\* Lines 904-918, after the last date: final GAA and rounding of the two row dicts.
FinalRow ==
    /\ mpc = "projection"
    /\ current_date > snapshot.weeks[request.week].end_date
    /\ stats' = [stats EXCEPT !.team1.row = final_row(@), !.team2.row = final_row(@)]
    /\ mpc' = "game_counts"
    /\ current_date' = snapshot.weeks[request.week].start_date
    /\ UNCHANGED <<request, snapshot, run, team2_ranked_roster, team2_lineup,
                   unused_spots_data, response, first_response, lineup_settings, lineupVars,
                   team1_ranked_roster, roster_before, simulated_moves, today, wpc,
                   roster_date, t1_daily_roster, t1_players_today, team1_lineup, solverVars, auxVars>>

\* Lines 919-948: one date of the game-count loop.
CountGamesDay ==
    /\ mpc = "game_counts"
    /\ current_date <= snapshot.weeks[request.week].end_date
    /\ BothLineups(current_date)
    /\ stats' = [stats EXCEPT
                    !.game_counts.team1_total = @ + Len(starters(team1_lineup')),
                    !.game_counts.team2_total = @ + Len(starters(team2_lineup'))]
    /\ UNCHANGED <<request, snapshot, mpc, run, team2_ranked_roster, unused_spots_data,
                   response, first_response, lineup_settings, lineupVars, roster_before,
                   today, wpc, solverVars, auxVars>>

\* Line 950 and lines 414-420: the call of _calculate_unused_spots.
StartUnusedSpots ==
    /\ mpc = "game_counts"
    /\ current_date > snapshot.weeks[request.week].end_date
    /\ unused_spots_data' = <<>>
    /\ mpc' = "unused_spots"
    /\ current_date' = snapshot.weeks[request.week].start_date
    /\ UNCHANGED <<request, snapshot, run, stats, team2_ranked_roster, team2_lineup,
                   response, first_response, lineup_settings, lineupVars,
                   team1_ranked_roster, roster_before, simulated_moves, today, wpc,
                   roster_date, t1_daily_roster, t1_players_today, team1_lineup, solverVars, auxVars>>

\* Lines 421-475: one date of the unused-slot report.
UnusedSpotsReportDay ==
    /\ mpc = "unused_spots"
    /\ current_date <= snapshot.weeks[request.week].end_date
    /\ DayStep(current_date, TRUE)
    /\ unused_spots_data' =
          store(unused_spots_data, day_name(current_date),
                open_slots_of_day(current_date, today, lineup_settings, team1_lineup'))
    /\ UNCHANGED <<request, snapshot, mpc, run, stats, team2_ranked_roster, team2_lineup,
                   response, first_response, lineup_settings, lineupVars, roster_before,
                   today, wpc, solverVars, auxVars>>

\* Lines 477 and 950-953: the report joins the stats and the handler returns them.
Respond ==
    /\ mpc = "unused_spots"
    /\ current_date > snapshot.weeks[request.week].end_date
    /\ response' = ok([team1 |-> stats.team1, team2 |-> stats.team2,
                       game_counts |-> stats.game_counts,
                       team1_unused_spots |-> unused_spots_data])
    /\ mpc' = "done"
    /\ UNCHANGED <<request, snapshot, run, stats, team2_ranked_roster, team2_lineup,
                   unused_spots_data, first_response, lineup_settings, lineupVars,
                   weekVars, solverVars, auxVars>>

\* _get_live_matchup_stats, lines 1042-1104: the live dict of one team, rounded for
\* display.
live_display(live_stats) ==
    [cat \in DOMAIN live_stats |->
        IF cat = "GAA" THEN Round2(live_stats[cat]) ELSE Round1(live_stats[cat])]

_get_live_matchup_stats(snap, team1_id, team2_id, start_date_str, end_date_str) ==
    LET cats == all_categories_to_fetch(snap.scoring)
        live(team_id) ==
            live_display(live_derived(
                live_stats_of([cat \in cats |-> 0], snap.daily_player_stats,
                              start_date_str, end_date_str, team_id)))
    IN [your_team_stats |-> live(team1_id), opponent_team_stats |-> live(team2_id)]

\* get_bench_points_data, lines 1120-1157: the matchup data of the week. (The bench
\* statistics that follow read nothing the model holds.)
BenchPointsMatchup ==
    /\ mpc = "lookup"
    /\ request.endpoint = "bench_points"
    /\ LET week == snapshot.weeks[request.week]
       IN response' = ok(_get_live_matchup_stats(snapshot,
                             snapshot.teams[request.team1_name],
                             snapshot.teams[request.team2_name],
                             DayStr(week.start_date), DayStr(week.end_date)))
    /\ mpc' = "done"
    /\ UNCHANGED <<request, snapshot, run, stats, team2_ranked_roster, team2_lineup,
                   unused_spots_data, first_response, lineup_settings, lineupVars,
                   weekVars, solverVars, auxVars>>

\* get_roster_data, lines 1429-1464: the lineup of every day somebody plays.
daily_optimal_lineups(roster, settings, start_date, end_date) ==
    [day \in {d \in start_date..end_date : players_playing_today(roster, DayStr(d)) # <<>>} |->
        get_optimal_lineup(players_playing_today(roster, DayStr(day)), settings)]

\* Lines 730-734 and 1258-1262: the categories the request leaves unchecked.
unchecked_categories(req, all_scoring_categories) ==
    IF req.categories.sent THEN all_scoring_categories \ req.categories.list ELSE {}

\* Lines 1352-1368: the custom total_rank of an entry of all_players, a quotient; an
\* unchecked category counts with a tenth of its rank. NoCustomRank is None.
DampeningFactor == 10
NoCustomRank == <<>>

RECURSIVE SumOfDampenedRanks(_, _, _)
SumOfDampenedRanks(row, cats, unchecked) ==
    IF cats = {} THEN 0
    ELSE LET cat == CHOOSE x \in cats : TRUE
             rank_value == row[cat_rank_column(cat)]
         IN (IF rank_value = None THEN 0
             ELSE IF cat \in unchecked THEN rank_value
             ELSE rank_value * DampeningFactor)
            + SumOfDampenedRanks(row, cats \ {cat}, unchecked)

new_total_rank(snap, player_id, unchecked) ==
    IF player_id \notin DOMAIN snap.joined_player_stats THEN NoCustomRank
    ELSE Fraction(SumOfDampenedRanks(snap.joined_player_stats[player_id], snap.scoring,
                                     unchecked),
                  DampeningFactor)

\* Lines 1298-1306 and 1335-1368: all_players. Its query selects the name, the team,
\* the positions and the normalized name of the rostered players, and no player_id.
all_players(snap, team_id, unchecked) ==
    [i \in DOMAIN snap.rosters[team_id] |->
        [player_name |-> snap.rosters[team_id][i].player_id,
         player_id |-> None,
         total_rank |-> new_total_rank(snap, snap.rosters[team_id][i].player_id, unchecked)]]

\* Lines 1369-1370: the custom ranks by player_id, of the entries that have one.
player_custom_rank_map(the_players) ==
    [id \in {the_players[i].player_id : i \in DOMAIN the_players} \ {None} |->
        (CHOOSE p \in Range(the_players) : p.player_id = id).total_rank]

\* Lines 1392-1398: the ranks of active_players after the update.
with_custom_rank(p, custom_ranks) ==
    IF p.player_id \in DOMAIN custom_ranks /\ custom_ranks[p.player_id] # NoCustomRank
    THEN [p EXCEPT !.total_rank = custom_ranks[p.player_id]]
    ELSE WithFallbackRank(p)

\* get_roster_data, lines 1263-1480, for a request without simulated moves.
RosterData ==
    /\ mpc = "lookup"
    /\ request.endpoint = "roster_data"
    /\ LET failure == lookup(<<request.team1_name>>, request.week, snapshot)
       IN IF failure # <<>>
          THEN response' = failure
          ELSE LET week == snapshot.weeks[request.week]
                   ranked == _get_ranked_roster_for_week(
                                 snapshot, snapshot.teams[request.team1_name], request.week)
                   unchecked == unchecked_categories(request, snapshot.scoring)
                   listed == all_players(snapshot, snapshot.teams[request.team1_name],
                                         unchecked)
                   roster == [i \in DOMAIN ranked |->
                                 with_custom_rank(ranked[i], player_custom_rank_map(listed))]
                   settings == snapshot.lineup_settings
               IN response' =
                     ok([players |-> listed,
                         daily_optimal_lineups |->
                             daily_optimal_lineups(roster, settings,
                                                   week.start_date, week.end_date),
                         lineup_settings |-> settings,
                         unused_roster_spots |->
                             _calculate_unused_spots(week.start_date, week.end_date,
                                                     roster, settings, today)])
    /\ mpc' = "done"
    /\ UNCHANGED <<request, snapshot, run, stats, team2_ranked_roster, team2_lineup,
                   unused_spots_data, first_response, lineup_settings, lineupVars,
                   weekVars, solverVars, auxVars>>

\* The client sends the same request again, on the same snapshot and the same day.
Rerun ==
    /\ mpc = "done"
    /\ run = 1
    /\ first_response' = response
    /\ response' = <<>>
    /\ run' = 2
    /\ mpc' = "lookup"
    /\ RequestLocalsReset
    /\ simulated_moves' = request.simulated_moves
    /\ UNCHANGED <<request, snapshot, stats, lineupVars, today, wpc,
                   solverVars, auxVars>>

NextMatchup ==
    \/ Lookup \/ LiveStats \/ RowProjectionDay \/ FinalRow \/ CountGamesDay
    \/ StartUnusedSpots \/ UnusedSpotsReportDay \/ Respond
    \/ BenchPointsMatchup \/ RosterData \/ Rerun

SpecMatchup == InitMatchup /\ [][NextMatchup]_vars

----------------------------------------------------------------------------
\* Claims on the request handlers.

MatchupDone(n) ==
    /\ request.endpoint = "matchup_team_stats"
    /\ run = n
    /\ mpc = "done"

GAAOf(G, T) == IF T > 0 THEN Fraction(G * 60, T) ELSE FractionZero

\* x is q to two decimals: a number of hundredths no further than half a hundredth
\* from q.
IsRoundedToHundredths(x, q) ==
    \E h \in 0..((q[1] * 100) \div q[2] + 1) :
        LET diff == q[1] * 100 - h * q[2]
        IN /\ x = Fraction(h, 100)
           /\ 2 * diff <= q[2]
           /\ 2 * (0 - diff) <= q[2]

Sides == {"team1", "team2"}

GAAScored == "GAA" \in snapshot.scoring

FinalRowStep == mpc = "projection" /\ mpc' = "game_counts" /\ GAAScored

BenchPointsStep ==
    /\ request.endpoint = "bench_points"
    /\ mpc = "lookup" /\ mpc' = "done"
    /\ GAAScored

\* The summed goals against and the summed, shutout-corrected ice time of a team over
\* the week, from the recorded rows.
RecordedSum(team_id, category) ==
    LET week == snapshot.weeks[request.week]
    IN SumStatValue({r \in snapshot.daily_player_stats :
                        /\ week.start_date <= r.day /\ r.day <= week.end_date
                        /\ r.team_id = team_id /\ r.category = category})

RecordedIceTime(team_id) ==
    RecordedSum(team_id, "TOI/G")
        + (IF "SHO" \in snapshot.scoring THEN RecordedSum(team_id, "SHO") * 60 ELSE 0)

\* C12 as stated: for each side the reported GAA is (G*60)/T when T > 0 and 0 when
\* T = 0, in the live and in the row aggregate (G, T the sums the aggregate holds
\* when its GAA is computed).
C12_GAAIsTheQuotient ==
    [][FinalRowStep =>
          \A side \in Sides :
             /\ stats[side].live["GAA"]
                   = GAAOf(stats[side].live["GA"], stats[side].live["TOI/G"])
             /\ stats'[side].row["GAA"]
                   = GAAOf(stats[side].row["GA"], stats[side].row["TOI/G"])]_vars

\* C12, amended: the live GAA of the matchup projection is that quotient; the row GAA,
\* and the live GAA that _get_live_matchup_stats returns, are the quotient rounded to
\* two decimals; all of them are 0 when T = 0.
C12_GAAIsTheRoundedQuotient ==
    [][/\ FinalRowStep =>
             \A side \in Sides :
                /\ stats[side].live["GAA"]
                      = GAAOf(stats[side].live["GA"], stats[side].live["TOI/G"])
                /\ stats[side].live["GAA"]
                      = GAAOf(RecordedSum(snapshot.teams[request[side \o "_name"]], "GA"),
                              RecordedIceTime(snapshot.teams[request[side \o "_name"]]))
                /\ IsRoundedToHundredths(stats'[side].row["GAA"],
                                         GAAOf(stats[side].row["GA"], stats[side].row["TOI/G"]))
                /\ stats[side].row["TOI/G"] = 0 => stats'[side].row["GAA"] = FractionZero
       /\ BenchPointsStep =>
             /\ IsRoundedToHundredths(
                    response'.body.your_team_stats["GAA"],
                    GAAOf(RecordedSum(snapshot.teams[request.team1_name], "GA"),
                          RecordedIceTime(snapshot.teams[request.team1_name])))
             /\ IsRoundedToHundredths(
                    response'.body.opponent_team_stats["GAA"],
                    GAAOf(RecordedSum(snapshot.teams[request.team2_name], "GA"),
                          RecordedIceTime(snapshot.teams[request.team2_name])))]_vars

\* C12 witness: a projection has answered; team 1 has ice time and a row GAA that
\* rounding changed from the live quotient, team 2 has goals against and no ice time.
C12_Witness ==
    /\ MatchupDone(1)
    /\ response.status = 200
    /\ GAAScored
    /\ stats.team1.live["TOI/G"] > 0
    /\ stats.team1.live["GAA"] # FractionZero
    /\ stats.team1.row["GAA"] \notin {FractionZero, stats.team1.live["GAA"]}
    /\ stats.team2.live["GA"] > 0
    /\ stats.team2.live["TOI/G"] = 0
    /\ stats.team2.live["GAA"] = FractionZero
    /\ stats.team2.row["GAA"] = FractionZero

\* The projection has its live totals (and has not answered yet).
LiveTotalsKnown ==
    /\ request.endpoint = "matchup_team_stats"
    /\ mpc \in {"projection", "game_counts", "unused_spots"}

TeamOf(side) == snapshot.teams[request[side \o "_name"]]

\* The categories whose totals are plain sums of recorded or projected values.
CountingCats == projection_cats(snapshot.scoring) \ {"GAA"}

\* The recorded actuals of the elapsed window: dates of the week strictly before today.
ElapsedSum(team_id, category) ==
    LET week == snapshot.weeks[request.week]
    IN SumStatValue({r \in snapshot.daily_player_stats :
                        /\ week.start_date <= r.day /\ r.day <= week.end_date
                        /\ r.day < today
                        /\ r.team_id = team_id /\ r.category = category})

\* C13: the live totals of the matchup projection are the recorded actuals of the
\* elapsed window only (dates of the week strictly before today), so that no date at
\* which the projection loop adds starters has its recorded actuals in the row total too.
C13_LiveCoversElapsedWindowOnly ==
    LiveTotalsKnown =>
        \A side \in Sides : \A cat \in CountingCats \ {"SHO"} :
            stats[side].live[cat] = ElapsedSum(TeamOf(side), cat)

\* The daily lineup of a side for a date, from the side's ranked roster.
LineupOfSide(side, day) ==
    IF side = "team1"
    THEN get_optimal_lineup(
             players_playing_today(daily_roster(team1_ranked_roster, simulated_moves,
                                                DayStr(day)), DayStr(day)),
             lineup_settings)
    ELSE get_optimal_lineup(team2_players_today(team2_ranked_roster, DayStr(day)),
                            lineup_settings)

StarterIds(side, day) ==
    LET a_lineup == LineupOfSide(side, day)
    IN UNION {{a_lineup[pos][i].player_id : i \in DOMAIN a_lineup[pos]} :
                    pos \in DOMAIN a_lineup}

\* A player's per-game projection of a category, 0 when it is absent.
ProjectionOf(player_id, category) ==
    LET table == snapshot.joined_player_stats
    IN IF player_id \in DOMAIN table
       THEN IF table[player_id][category] = None THEN 0 ELSE table[player_id][category]
       ELSE 0

RECURSIVE SumOfProjections(_, _)
SumOfProjections(ids, category) ==
    IF ids = {} THEN 0
    ELSE LET id == CHOOSE x \in ids : TRUE
         IN ProjectionOf(id, category) + SumOfProjections(ids \ {id}, category)

\* The projections of the starters of every date from first through last.
RECURSIVE ProjectedSum(_, _, _, _)
ProjectedSum(side, category, first, last) ==
    IF first > last THEN 0
    ELSE SumOfProjections(StarterIds(side, first), category)
         + ProjectedSum(side, category, first + 1, last)

FirstProjectedDay ==
    LET start == snapshot.weeks[request.week].start_date
    IN IF today >= start THEN today ELSE start

ProjectionLoop == request.endpoint = "matchup_team_stats" /\ mpc = "projection"

ProjectionLoopOver == ProjectionLoop /\ current_date > snapshot.weeks[request.week].end_date

\* C14: while the projection loop runs, every counting category of each side's row
\* dict is the corrected live total plus the projections (0 when absent) of that side's
\* starters of every date from max(today, week start) up to the last date processed; when
\* the loop is over, and before the rounding, that is every date through the week's end.
C14_RowIsLivePlusProjectedStarters ==
    ProjectionLoop =>
        \A side \in Sides : \A cat \in CountingCats :
            stats[side].row[cat] =
                stats[side].live[cat]
                + ProjectedSum(side, cat, FirstProjectedDay, current_date - 1)

\* The loop is over for a week that today lies inside: team 1 gained goals from its
\* projected starters, had a date without anybody playing (day 4) and a starter without
\* projections (player 3).
C14_Witness ==
    /\ ProjectionLoopOver
    /\ today = 2
    /\ snapshot.weeks[request.week].end_date >= 4
    /\ StarterIds("team1", 4) = {}
    /\ 3 \in StarterIds("team1", 2) \cup StarterIds("team1", 3)
    /\ 3 \notin DOMAIN snapshot.joined_player_stats
    /\ stats.team1.row["G"] > stats.team1.live["G"]

\* The week lies entirely before today: the row totals are the live totals.
C14_WitnessPastWeek ==
    /\ ProjectionLoopOver
    /\ today > snapshot.weeks[request.week].end_date
    /\ snapshot.weeks[request.week].end_date >= 2
    /\ stats.team1.row = stats.team1.live
    /\ stats.team1.live["G"] > 0

\* The report loop has just stored the entry of roster_date, from team 1's lineup of
\* that date.
JustReported ==
    /\ request.endpoint = "matchup_team_stats"
    /\ mpc = "unused_spots"
    /\ current_date > snapshot.weeks[request.week].start_date
    /\ roster_date = current_date - 1

ReportedEntry == unused_spots_data[day_name(roster_date)]

SlotCapacity(pos) == IF pos \in DOMAIN lineup_settings THEN lineup_settings[pos] ELSE 0

SlotsFilled(pos) == IF pos \in DOMAIN team1_lineup THEN Len(team1_lineup[pos]) ELSE 0

SlotsOpen(pos) == SlotCapacity(pos) - SlotsFilled(pos)

\* A starter of pos is also eligible for a different reported position with an open slot.
StarterCouldMove(pos) ==
    \E i \in 1..SlotsFilled(pos) :
        \E other \in Range(team1_lineup[pos][i].eligible_positions) :
            /\ other # pos
            /\ other \in Range(position_order)
            /\ SlotsOpen(other) > 0

\* C15: in the unused-slot report of a date on or after today, the value of every
\* reported position is its capacity minus the number of its starters, and the position
\* carries the '*' flag exactly when that value is 0 and one of its starters is also
\* eligible for a different reported position whose value is above 0.
C15_OpenCountsAndFlags ==
    (JustReported /\ roster_date >= today) =>
        \A pos \in Range(position_order) :
            /\ ~ReportedEntry[pos].dash
            /\ ReportedEntry[pos].n = SlotsOpen(pos)
            /\ ReportedEntry[pos].star <=> (SlotsOpen(pos) = 0 /\ StarterCouldMove(pos))

\* C with capacity 2 is filled by two players who are also eligible for D, and D with
\* capacity 2 has one starter: C is reported as '0*' and D as 1.
C15_Witness ==
    /\ JustReported /\ roster_date >= today
    /\ SlotCapacity("C") = 2 /\ SlotCapacity("D") = 2
    /\ SlotsFilled("C") = 2 /\ SlotsFilled("D") = 1
    /\ \A i \in 1..2 : "D" \in Range(team1_lineup["C"][i].eligible_positions)
    /\ ReportedEntry["C"] = [n |-> 0, star |-> TRUE, dash |-> FALSE]
    /\ ReportedEntry["D"] = OpenInt(1)

\* The number of dates of the requested week, start through end inclusive.
DatesOfWeek ==
    LET week == snapshot.weeks[request.week]
    IN IF week.end_date >= week.start_date THEN week.end_date - week.start_date + 1 ELSE 0

\* The unused-slot report of an answered request.
AnsweredReport ==
    IF request.endpoint = "matchup_team_stats" THEN response.body.team1_unused_spots
    ELSE response.body.unused_roster_spots

ReportAnswered ==
    /\ request.endpoint \in {"matchup_team_stats", "roster_data"}
    /\ mpc = "done"
    /\ response.status = 200

\* C16: the unused-slot report of a week has exactly one entry for each date of the
\* week, whatever the length of the week: no date's entry replaces another date's.
C16_OneEntryPerDate ==
    ReportAnswered => Cardinality(DOMAIN AnsweredReport) = DatesOfWeek

\* A request of the matchup projection or of the roster computation has been answered.
ComputationAnswered ==
    /\ request.endpoint \in {"matchup_team_stats", "roster_data"}
    /\ mpc = "done"

RequestedTeams ==
    IF request.endpoint = "matchup_team_stats"
    THEN {request.team1_name, request.team2_name}
    ELSE {request.team1_name}

MissingTeams == RequestedTeams \ DOMAIN snapshot.teams

MissingWeeks == {request.week} \ DOMAIN snapshot.weeks

\* The not-found messages that name an identifier the snapshot does not have.
MissingIdentifierMessages ==
    {<<"Team not found: ", name>> : name \in MissingTeams}
    \cup {<<"Week not found: ", week_text(w)>> : w \in MissingWeeks}

\* C17: a matchup projection or roster computation requested with a team name or a
\* week number that the snapshot does not have ends with a not-found failure that names
\* a missing identifier, and returns no totals, lineups, game counts or unused-slot data:
\* the answer has no body and nothing was computed for it.
C17_NotFoundNamesTheIdentifier ==
    (ComputationAnswered /\ (MissingTeams # {} \/ MissingWeeks # {})) =>
        /\ response.status = 404
        /\ response.error \in MissingIdentifierMessages
        /\ DOMAIN response.body = {}
        /\ stats = <<>>
        /\ unused_spots_data = <<>>

\* The matchup projection was requested for an opponent the snapshot does not have.
C17_Witness ==
    /\ ComputationAnswered
    /\ request.endpoint = "matchup_team_stats"
    /\ request.team1_name \in DOMAIN snapshot.teams
    /\ MissingTeams = {request.team2_name}
    /\ response.error = <<"Team not found: ", request.team2_name>>

\* The roster computation was requested for a week the snapshot does not have.
C17_WitnessWeek ==
    /\ ComputationAnswered
    /\ request.endpoint = "roster_data"
    /\ MissingTeams = {} /\ MissingWeeks = {request.week}
    /\ response.status = 404

\* A slot configuration without a usable slot, or a week that ends before it starts.
NoUsableSlots == \A pos \in DOMAIN snapshot.lineup_settings : snapshot.lineup_settings[pos] = 0

InvalidConfiguration ==
    \/ NoUsableSlots
    \/ /\ MissingWeeks = {}
       /\ snapshot.weeks[request.week].start_date > snapshot.weeks[request.week].end_date

\* C18: with a slot configuration that has no usable slot (empty, or every capacity 0)
\* or a week whose start date is after its end date, the projection and the roster
\* computation answer with a failure and not with a normal result.
C18_InvalidConfigurationFails ==
    (ComputationAnswered /\ MissingTeams = {} /\ MissingWeeks = {} /\ InvalidConfiguration)
        => response.status # 200

\* The players of the pool without a total_rank, and those with one.
UnrankedIds == {players[i].player_id : i \in {k \in DOMAIN players : players[k].total_rank = None}}

RankedPlayers == {players[i] : i \in {k \in DOMAIN players : players[k].total_rank # None}}

\* C19: an unranked player is always lowest priority, whatever the total_rank values of
\* the ranked players are: in the finished lineup no unranked player holds a slot of a
\* position while a ranked player who is eligible for that position is left out.
C19_UnrankedNeverAheadOfRanked ==
    pc = "done" =>
        \A pos \in DOMAIN lineup : \A i \in DOMAIN lineup[pos] :
            lineup[pos][i].player_id \in UnrankedIds =>
                \A q \in RankedPlayers :
                    pos \in Range(q.eligible_positions) => q.player_id \in StartedIds(lineup)

----------------------------------------------------------------------------
\* find_optimal_lineup (src/server/optimization_logic.py): the lineup of a day for
\* generate_weekly_lineups. A player is a record of player_id, positions (the tokens of
\* the positions string split at ', ') and marginal_value, an integer number of
\* hundredths.

\* Bounds of the solver's inputs.
MaxActive == 3
MaxValue == 2
MaxSlots == 2

\* Line 28: sorted(..., key=marginal_value, reverse=True); the sort is stable, so
\* players of equal value keep their input order.
sorted_players(the_players) ==
    LET n == Len(the_players)
        before(j, i) ==
            \/ the_players[j].marginal_value > the_players[i].marginal_value
            \/ the_players[j].marginal_value = the_players[i].marginal_value /\ j < i
        place(i) == Cardinality({j \in 1..n : before(j, i)}) + 1
    IN [k \in 1..n |-> the_players[CHOOSE i \in 1..n : place(i) = k]]

\* Lines 31-32.
is_goalie(p) == "G" \in Range(p.positions)
eligible_skaters(sorted) == SelectSeq(sorted, LAMBDA p : ~is_goalie(p))
eligible_goalies(sorted) == SelectSeq(sorted, LAMBDA p : is_goalie(p))

\* Lines 35-36.
skater_slots(slots) == [pos \in DOMAIN slots \ {"G"} |-> slots[pos]]
goalie_slots_count(slots) == IF "G" \in DOMAIN slots THEN slots["G"] ELSE 0

\* Line 59: the player's positions that are skater slots, in the player's order.
player_positions_FirstOnly(player, slots) ==
    SubSeq(SelectSeq(player.positions, LAMBDA p : p \in DOMAIN slots), 1, 1)
player_positions(player, slots) ==
    SelectSeq(player.positions, LAMBDA p : p \in DOMAIN slots)

\* Lines 43-74: solve_skaters. The memo only saves recomputation: the result is a
\* function of (player_index, slots). Indices are 1-based here.
RECURSIVE solve_skaters(_, _, _)
RECURSIVE try_positions(_, _, _, _, _, _)

\* Lines 60-71: the loop over the player's positions, from the k-th on, with the best
\* result found so far.
try_positions(skaters, player_index, slots, positions, k, best) ==
    IF k > Len(positions) THEN best
    ELSE LET player == skaters[player_index]
             pos == positions[k]
         IN IF slots[pos] > 0
            THEN LET new_slots == [slots EXCEPT ![pos] = @ - 1]
                     path == solve_skaters(skaters, player_index + 1, new_slots)
                     current_score == player.marginal_value + path.score
                 IN IF current_score > best.score
                    THEN try_positions(skaters, player_index, slots, positions, k + 1,
                                       [score |-> current_score,
                                        lineup |-> <<<<player, pos>>>> \o path.lineup])
                    ELSE try_positions(skaters, player_index, slots, positions, k + 1, best)
            ELSE try_positions(skaters, player_index, slots, positions, k + 1, best)

solve_skaters(skaters, player_index, slots) ==
    IF player_index = Len(skaters) + 1 THEN [score |-> 0, lineup |-> <<>>]
    ELSE try_positions(skaters, player_index, slots,
                       player_positions(skaters[player_index], slots), 1,
                       solve_skaters(skaters, player_index + 1, slots))

\* Lines 28-90.
find_optimal_lineup(the_players, slots) ==
    LET sorted == sorted_players(the_players)
        goalies == eligible_goalies(sorted)
        count == goalie_slots_count(slots)
        optimal_skaters == solve_skaters(eligible_skaters(sorted), 1, skater_slots(slots)).lineup
        optimal_goalies ==
            [i \in 1..(IF count < Len(goalies) THEN count ELSE Len(goalies)) |->
                <<goalies[i], "G">>]
        roster == optimal_skaters \o optimal_goalies
        optimal_player_ids == {roster[i][1].player_id : i \in DOMAIN roster}
    IN [optimal_roster |-> roster,
        benched_players |->
            SelectSeq(the_players, LAMBDA p : p.player_id \notin optimal_player_ids)]

\* The inputs: at most MaxActive players with ids in input order, and the slot counts
\* of the league with or without a goalie slot. LW is a position without a slot.
PositionChoices == {<<"C">>, <<"D">>, <<"C", "D">>, <<"G">>, <<"C", "LW">>}

MarginalValues == -1..MaxValue

ActivePlayer(id, positions, value) ==
    [player_id |-> id, positions |-> positions, marginal_value |-> value]

LineupSlotChoices ==
    [{"C", "D"} -> 0..MaxSlots]
    \cup {s \in [{"C", "D", "G"} -> 0..MaxSlots] : s["G"] = 1}

InitSolver ==
    /\ \E n \in 0..MaxActive :
          \E pos \in [1..n -> PositionChoices], val \in [1..n -> MarginalValues] :
             active_players = [i \in 1..n |-> ActivePlayer(i, pos[i], val[i])]
    /\ lineup_slots \in LineupSlotChoices
    /\ spc = "start"
    /\ optimal_roster = <<>>
    /\ benched_players = <<>>
    /\ MatchupIdle
    /\ AuxIdle
    /\ lineup_settings = <<>>
    /\ team1_ranked_roster = <<>>
    /\ roster_before = <<>>
    /\ simulated_moves = <<>>
    /\ today = 0
    /\ wpc = "idle"
    /\ current_date = 0
    /\ roster_date = 0
    /\ t1_daily_roster = <<>>
    /\ t1_players_today = <<>>
    /\ team1_lineup = <<>>
    /\ players = <<>>
    /\ pc = "idle"
    /\ ranked_players = <<>>
    /\ player_pool = <<>>
    /\ lineup = <<>>
    /\ assigned_player_ids = {}
    /\ pass1_lineup = <<>>

\* One call of find_optimal_lineup.
FindOptimalLineup ==
    /\ spc = "start"
    /\ LET result == find_optimal_lineup(active_players, lineup_slots)
       IN /\ optimal_roster' = result.optimal_roster
          /\ benched_players' = result.benched_players
    /\ spc' = "done"
    /\ UNCHANGED <<active_players, lineup_slots, lineup_settings, lineupVars, weekVars,
                   matchupVars, auxVars>>

NextSolver == FindOptimalLineup

SpecSolver == InitSolver /\ [][NextSolver]_vars

----------------------------------------------------------------------------
\* Claims about find_optimal_lineup.

\* The skaters of the call, by index in active_players.
SkaterIndices == {i \in DOMAIN active_players : "G" \notin Range(active_players[i].positions)}

SkaterSlotPositions == DOMAIN lineup_slots \ {"G"}

Bench == "BN"

\* Every way to bench each skater or place it in one of its positions, with no
\* position holding more skaters than it has slots.
Assignments ==
    {a \in [SkaterIndices -> SkaterSlotPositions \cup {Bench}] :
        /\ \A i \in SkaterIndices :
              a[i] # Bench => a[i] \in Range(active_players[i].positions)
        /\ \A pos \in SkaterSlotPositions :
              Cardinality({i \in SkaterIndices : a[i] = pos}) <= lineup_slots[pos]}

RECURSIVE SumOfValues(_, _)
SumOfValues(a, indices) ==
    IF indices = {} THEN 0
    ELSE LET i == CHOOSE x \in indices : TRUE
         IN (IF a[i] = Bench THEN 0 ELSE active_players[i].marginal_value)
            + SumOfValues(a, indices \ {i})

AssignmentValue(a) == SumOfValues(a, SkaterIndices)

\* The skater assignment the call returned, as an assignment of SkaterIndices.
ReturnedAssignment ==
    [i \in SkaterIndices |->
        IF \E k \in DOMAIN optimal_roster : optimal_roster[k][1] = active_players[i]
        THEN optimal_roster[CHOOSE k \in DOMAIN optimal_roster :
                                optimal_roster[k][1] = active_players[i]][2]
        ELSE Bench]

ReturnedSkaterEntries ==
    {k \in DOMAIN optimal_roster : "G" \notin Range(optimal_roster[k][1].positions)}

\* C20: the skater assignment find_optimal_lineup returns is one of the assignments
\* (each skater benched or in one of its eligible positions, no position over its slot
\* count, no skater twice) and its summed marginal_value is the maximum over all of them.
C20_SkaterSumIsMaximum ==
    spc = "done" =>
        /\ ReturnedAssignment \in Assignments
        /\ Cardinality(ReturnedSkaterEntries)
              = Cardinality({i \in SkaterIndices : ReturnedAssignment[i] # Bench})
        /\ \A a \in Assignments : AssignmentValue(a) <= AssignmentValue(ReturnedAssignment)

\* Three skaters compete for one C and one D slot; the most valuable one is eligible
\* for both and has to take D for the sum to be maximal, and one skater is benched.
C20_Witness ==
    /\ spc = "done"
    /\ Cardinality(SkaterIndices) = 3
    /\ lineup_slots["C"] = 1 /\ lineup_slots["D"] = 1
    /\ \E i \in SkaterIndices :
          /\ active_players[i].positions = <<"C", "D">>
          /\ active_players[i].marginal_value = MaxValue
          /\ ReturnedAssignment[i] = "D"
    /\ \E i \in SkaterIndices : ReturnedAssignment[i] = "C"
    /\ \E i \in SkaterIndices :
          ReturnedAssignment[i] = Bench /\ active_players[i].marginal_value > 0
    /\ AssignmentValue(ReturnedAssignment) = MaxValue + 1

----------------------------------------------------------------------------
\* Claims about the ranks of the roster.

\* The scored categories the request leaves unchecked, and the player's rank values.
Unchecked ==
    IF request.categories.sent THEN snapshot.scoring \ request.categories.list ELSE {}

HasStatsRow(player_id) == player_id \in DOMAIN snapshot.joined_player_stats

RankValue(player_id, cat) == snapshot.joined_player_stats[player_id][cat \o "_cat_rank"]

\* The player's total over the scored categories, in tenths: a checked category gives
\* its full rank, an unchecked one its rank divided by the dampening factor.
RECURSIVE SelectedTenths(_, _)
SelectedTenths(player_id, cats) ==
    IF cats = {} THEN 0
    ELSE LET cat == CHOOSE x \in cats : TRUE
         IN (IF RankValue(player_id, cat) = None THEN 0
             ELSE IF cat \in Unchecked THEN RankValue(player_id, cat)
             ELSE 10 * RankValue(player_id, cat))
            + SelectedTenths(player_id, cats \ {cat})

ReflectsSelection(p) ==
    HasStatsRow(p.player_id)
        => 10 * p.total_rank = SelectedTenths(p.player_id, snapshot.scoring)

\* The rosters the matchup projection takes its daily pools from are loaded.
RostersLoaded ==
    /\ request.endpoint = "matchup_team_stats"
    /\ mpc \in {"projection", "game_counts", "unused_spots"}

RosterAnswered ==
    /\ request.endpoint = "roster_data" /\ mpc = "done" /\ response.status = 200

\* The players of the daily lineups of the roster endpoint's answer.
AnsweredStarters ==
    LET lineups == response.body.daily_optimal_lineups
    IN UNION {UNION {Range(lineups[d][pos]) : pos \in DOMAIN lineups[d]} : d \in DOMAIN lineups}

\* C21: the total_rank of every base-roster player that the matchup projection and the
\* roster endpoint hand to get_optimal_lineup follows the request's category selection:
\* checked categories with their full rank, unchecked ones with a tenth of it.
C21_RanksReflectSelection ==
    /\ RostersLoaded =>
          \A p \in Range(team1_ranked_roster) \cup Range(team2_ranked_roster) :
              ReflectsSelection(p)
    /\ RosterAnswered => \A p \in AnsweredStarters : ReflectsSelection(p)

\* The same for the roster endpoint alone.
C21_RosterRanksReflectSelection ==
    RosterAnswered => \A p \in AnsweredStarters : ReflectsSelection(p)

\* The player has no rank value for any scored category.
NoRankValue(player_id) ==
    HasStatsRow(player_id) => \A cat \in snapshot.scoring : RankValue(player_id, cat) = None

\* C22: a rostered player without a rank value for any scored category, with or
\* without a row of statistics, leaves the ranking step with total_rank None: in the
\* rosters of the matchup projection and in the player list of the roster endpoint.
C22_NoRankValuesGiveNone ==
    /\ RostersLoaded =>
          \A p \in Range(team1_ranked_roster) \cup Range(team2_ranked_roster) :
              NoRankValue(p.player_id) => p.total_rank = None
    /\ RosterAnswered =>
          \A i \in DOMAIN response.body.players :
              NoRankValue(response.body.players[i].player_name)
                  => response.body.players[i].total_rank = NoCustomRank

----------------------------------------------------------------------------
\* Claims about pass 2 and the upgrade pass of get_optimal_lineup.

\* The players that wait for pass 2, in ascending rank order, ties in the order of the
\* pool; and the multi-position players among them.
InRankOrder(pool) ==
    LET before(j, i) ==
            \/ pool[j].total_rank < pool[i].total_rank
            \/ pool[j].total_rank = pool[i].total_rank /\ j < i
        place(i) == Cardinality({j \in DOMAIN pool : before(j, i)}) + 1
    IN [k \in DOMAIN pool |-> pool[CHOOSE i \in DOMAIN pool : place(i) = k]]

MultiPosition(pool) == SelectSeq(InRankOrder(pool), LAMBDA p : Len(p.eligible_positions) > 1)

LineupIds(lu) == UNION {{lu[pos][i].player_id : i \in DOMAIN lu[pos]} : pos \in DOMAIN lu}

IndexIn(seq, x) == CHOOSE i \in DOMAIN seq : seq[i] = x /\ \A j \in 1..(i - 1) : seq[j] # x

\* The lineup after the multi-position players from the k-th on have been handled: each
\* goes to its open eligible position of least scarcity, the scarcity of a position
\* being the number of other multi-position players that are still without a slot and
\* eligible for it; equal counts are decided by the player's own order of positions;
\* without an open eligible position the player stays out.
RECURSIVE ScarcityPlacement(_, _, _)
ScarcityPlacement(k, multi, lu) ==
    IF k > Len(multi) THEN lu
    ELSE LET p == multi[k]
             open == {pos \in Range(p.eligible_positions) :
                         pos \in DOMAIN lu /\ Len(lu[pos]) < lineup_settings[pos]}
             count(pos) ==
                 Cardinality({j \in DOMAIN multi :
                                 /\ j # k
                                 /\ multi[j].player_id \notin LineupIds(lu)
                                 /\ pos \in Range(multi[j].eligible_positions)})
             first(pos) == IndexIn(p.eligible_positions, pos)
         IN IF open = {} THEN ScarcityPlacement(k + 1, multi, lu)
            ELSE LET best == CHOOSE pos \in open :
                                \A q \in open \ {pos} :
                                    \/ count(pos) < count(q)
                                    \/ count(pos) = count(q) /\ first(pos) < first(q)
                 IN ScarcityPlacement(k + 1, multi, [lu EXCEPT ![best] = Append(@, p)])

\* C23: pass 2 takes the multi-position players in ascending rank order (ties in input
\* order) and gives each the open eligible position with the smallest scarcity count
\* (the other still-unassigned pass-2 players eligible for it), ties going to the
\* position that comes first in the player's own order; a player without an open
\* eligible position is left unassigned.
C23_Pass2ByScarcity ==
    [][(pc = "pass2" /\ pc' = "pass3")
          => /\ lineup' = ScarcityPlacement(1, MultiPosition(player_pool), lineup)
             /\ Range(player_pool') = {p \in Range(player_pool) :
                                          p.player_id \notin LineupIds(lineup')}]_vars

\* Pass 2 is over: the best-ranked player, eligible for C and D in that order, found
\* both open and went to D, because two other players were waiting for C; one of them
\* got C and the other, without an open position, stayed out.
C23_Witness ==
    /\ pc = "pass3"
    /\ Len(ranked_players) = 3
    /\ ranked_players[1].eligible_positions = <<"C", "D">>
    /\ pass1_lineup["C"] = <<>> /\ pass1_lineup["D"] = <<>>
    /\ lineup_settings["C"] = 1 /\ lineup_settings["D"] = 1
    /\ lineup["D"] = <<ranked_players[1]>>
    /\ Len(lineup["C"]) = 1
    /\ \E p \in Range(player_pool) : Len(p.eligible_positions) > 1

\* The time on ice of a side's goalies as the claim gives it: the recorded sum plus 60
\* minutes for every shutout recorded in the window.
CreditedIceTime(team_id) ==
    RecordedSum(team_id, "TOI/G") + RecordedSum(team_id, "SHO") * 60

\* C24: whichever categories the league scores, the live time-on-ice total from which
\* the live GAA is computed is the recorded time on ice plus 60 minutes for each
\* shutout recorded in the window.
C24_ShutoutCreditInEveryLeague ==
    (LiveTotalsKnown /\ GAAScored) =>
        \A side \in Sides :
            /\ stats[side].live["TOI/G"] = CreditedIceTime(TeamOf(side))
            /\ stats[side].live["GAA"]
                  = GAAOf(RecordedSum(TeamOf(side), "GA"), CreditedIceTime(TeamOf(side)))

\* The same for the leagues that score shutouts.
C24_ShutoutCreditWhereScored ==
    (LiveTotalsKnown /\ GAAScored /\ "SHO" \in snapshot.scoring) =>
        \A side \in Sides :
            stats[side].live["TOI/G"] = CreditedIceTime(TeamOf(side))

\* The upgrade pass as one step, and the starters that left a position in it.
UpgradePass == pc = "pass3" /\ pc' = "done"

LeftPosition(pos) == {p \in Range(lineup[pos]) : p \notin Range(lineup'[pos])}

PlacedInPass1(p) == \E pos \in DOMAIN pass1_lineup : p \in Range(pass1_lineup[pos])

\* C25: in the upgrade pass every starter that is evicted is a single-eligibility player
\* that pass 1 placed, and it finds no other slot: it is in no position afterwards, and
\* no position has more or fewer starters than before the pass.
C25_UpgradeEvictsPass1SinglesForGood ==
    [][UpgradePass =>
          \A pos \in DOMAIN lineup :
             /\ Len(lineup'[pos]) = Len(lineup[pos])
             /\ \A p \in LeftPosition(pos) :
                   /\ Len(p.eligible_positions) = 1
                   /\ PlacedInPass1(p)
                   /\ p.player_id \notin LineupIds(lineup')]_vars

\* The upgrade pass has run and evicted a starter: a single-position player of pass 1 is
\* out of the lineup and a multi-position player of better rank holds its slot.
C25_Witness ==
    /\ pc = "done"
    /\ \E pos \in DOMAIN lineup :
          \E p \in Range(pass1_lineup[pos]), q \in Range(lineup[pos]) :
             /\ p.player_id \notin LineupIds(lineup)
             /\ Len(p.eligible_positions) = 1
             /\ Len(q.eligible_positions) > 1
             /\ q \in Range(player_pool)
             /\ q.total_rank < p.total_rank

\* ---------------------------------------------------------------------------------
\* C26

\* Team 2's side of a matchup projection, computed from the snapshot, today and the
\* request's team and week alone: the ranked roster, the pool and lineup of a date, the
\* number of starters over a range of dates, and the row dict after the projection loop.
Team2Roster == _get_ranked_roster_for_week(snapshot, TeamOf("team2"), request.week)

Team2PoolOn(day) == SelectSeq(Team2Roster, LAMBDA p : DayStr(day) \in p.game_dates_this_week)

Team2LineupOn(day) == get_optimal_lineup(Team2PoolOn(day), snapshot.lineup_settings)

RECURSIVE Team2Starts(_, _)
Team2Starts(first, last) ==
    IF first > last THEN 0
    ELSE Len(starters(Team2LineupOn(first))) + Team2Starts(first + 1, last)

Team2Live ==
    LET week == snapshot.weeks[request.week]
        cats == all_categories_to_fetch(snapshot.scoring)
    IN live_derived(live_stats_of([cat \in cats |-> 0], snapshot.daily_player_stats,
                                  DayStr(week.start_date), DayStr(week.end_date),
                                  TeamOf("team2")))

RECURSIVE Team2RowThrough(_, _)
Team2RowThrough(first, last) ==
    IF first > last THEN Team2Live
    ELSE LET team2_starters == starters(Team2LineupOn(last))
         IN add_starters(Team2RowThrough(first, last - 1), team2_starters,
                         player_avg_stats(snapshot, team2_starters),
                         projection_cats(snapshot.scoring))

\* The projection has answered a request whose teams and week exist.
ProjectionAnswered ==
    /\ request.endpoint = "matchup_team_stats"
    /\ mpc = "done"
    /\ response.status = 200

\* A simulated move that is in effect on some date of the week.
MoveInEffect(m) ==
    \E d \in snapshot.weeks[request.week].start_date .. snapshot.weeks[request.week].end_date :
        StrLE(m.date, DayStr(d))

\* C26: simulated moves affect only team 1. Whatever the list of simulated moves
\* (including moves that drop or add a player of team 2's roster), team 2's pool and
\* lineup of every date, its row totals and its game counts are the ones that the
\* snapshot and today give by themselves.
C26_Team2IgnoresSimulatedMoves ==
    LET week == snapshot.weeks[request.week]
    IN /\ (request.endpoint = "matchup_team_stats" /\ mpc \in {"projection", "game_counts"}
              /\ roster_date = current_date - 1 /\ roster_date >= week.start_date)
          => /\ team2_ranked_roster = Team2Roster
             /\ team2_lineup = Team2LineupOn(roster_date)
       /\ ProjectionLoop
          => /\ stats.team2.row = Team2RowThrough(FirstProjectedDay, current_date - 1)
             /\ stats.game_counts.team2_remaining
                   = Team2Starts(FirstProjectedDay, current_date - 1)
       /\ (request.endpoint = "matchup_team_stats" /\ mpc = "game_counts")
          => stats.game_counts.team2_total = Team2Starts(week.start_date, current_date - 1)
       /\ ProjectionAnswered
          => /\ response.body.team2.live = Team2Live
             /\ response.body.team2.row
                   = final_row(Team2RowThrough(FirstProjectedDay, week.end_date))
             /\ response.body.game_counts.team2_remaining
                   = Team2Starts(FirstProjectedDay, week.end_date)
             /\ response.body.game_counts.team2_total
                   = Team2Starts(week.start_date, week.end_date)

\* C26 witness: an answered projection whose moves dropped team 2's player 5 on a date
\* at which 5 starts for team 2, and added team 2's player 6, who started for team 1 on
\* the last date (so team 1's side did change) while team 2 was projected goals.
C26_Witness ==
    /\ ProjectionAnswered
    /\ today = 0
    /\ \E i \in DOMAIN simulated_moves :
          LET m == simulated_moves[i]
          IN /\ MoveInEffect(m)
             /\ m.dropped_player.player_id \in RosterIds(Team2Roster)
             /\ m.added_player.player_id \in RosterIds(Team2Roster)
             /\ m.dropped_player.player_id \in StarterIds("team2", 1)
             /\ m.added_player.player_id \in StarterIds("team1", roster_date)
             /\ m.added_player.player_id \notin RosterIds(team1_ranked_roster)
    /\ response.body.team2.row["G"] > response.body.team2.live["G"]
    /\ response.body.game_counts.team2_total > 0

----------------------------------------------------------------------------
\* generate_weekly_lineups (src/server/lineup_generator.py): the stored optimal lineups
\* of a team and week are rebuilt inside one transaction of league_conn.

MaxRuns == 2
GenWeekLen == 2

\* A row of optimal_lineups; its primary key is (lineup_date, team_id, player_id).
LineupRow(day, team_id, player, position, status) ==
    [lineup_date |-> DayStr(day), team_id |-> team_id, player_id |-> player.player_id,
     played_position |-> position, status |-> status,
     marginal_value |-> player.marginal_value]

SameKey(r, q) ==
    r.lineup_date = q.lineup_date /\ r.team_id = q.team_id /\ r.player_id = q.player_id

\* INSERT OR REPLACE: the row takes the place of the row with its key.
insert_or_replace(rows, row) == {r \in rows : ~SameKey(r, row)} \cup {row}

RECURSIVE insert_all(_, _)
insert_all(rows, new_rows) ==
    IF new_rows = <<>> THEN rows
    ELSE insert_all(insert_or_replace(rows, Head(new_rows)), Tail(new_rows))

\* Lines 130-131: DELETE ... WHERE team_id = ? AND lineup_date BETWEEN ? AND ?.
delete_old(rows, team_id, week_info) ==
    {r \in rows : ~(r.team_id = team_id
                    /\ StrLE(DayStr(week_info.start_date), r.lineup_date)
                    /\ StrLE(r.lineup_date, DayStr(week_info.end_date)))}

\* Lines 145-156: the rows of a date, the starters first and the bench after them.
rows_of_day(day, team_id, the_optimal_roster, the_benched_players) ==
    [k \in DOMAIN the_optimal_roster |->
        LineupRow(day, team_id, the_optimal_roster[k][1], the_optimal_roster[k][2], "ACTIVE")]
    \o [k \in DOMAIN the_benched_players |->
           LineupRow(day, team_id, the_benched_players[k], "BN", "BENCH")]

\* Connection.close() (lines 165-166) without a commit before it: the changes of the
\* open transaction are lost, the committed rows stay.
close_Commits(committed, conn) == IF conn.in_transaction THEN conn.rows ELSE committed
close(committed, conn) == committed

ClosedConn == [open |-> FALSE, in_transaction |-> FALSE, rows |-> {}]

\* The enriched roster of a run (lines 88-122): player 1 plays both dates, player 2 the
\* first, player 3 the second.
GenPlayer(id, positions, value, schedule) ==
    [player_id |-> id, positions |-> positions, marginal_value |-> value,
     schedule |-> {DayStr(d) : d \in schedule}]

GenRosters ==
    { << GenPlayer(1, <<"C">>, 2, {1, 2}), GenPlayer(2, <<"C", "D">>, 1, {1}) >>,
      << GenPlayer(1, <<"C">>, 1, {1, 2}), GenPlayer(3, <<"C">>, 2, {2}) >>,
      << GenPlayer(2, <<"D">>, 1, {1}) >> }

GenSlots == { ("C" :> 1) @@ ("D" :> 1), <<>> }

GenInputs ==
    [lineup_slots : GenSlots, roster_players : GenRosters, team_id : {"1"},
     week_info : {[week_num |-> 1, start_date |-> 1, end_date |-> GenWeekLen]}]

\* Rows the table may hold before the first run: of another team, of another week, and
\* of this team and week for a player who has left the roster.
OtherRows ==
    { [lineup_date |-> DayStr(1), team_id |-> "2", player_id |-> 1, played_position |-> "C",
       status |-> "ACTIVE", marginal_value |-> 2],
      [lineup_date |-> DayStr(GenWeekLen + 1), team_id |-> "1", player_id |-> 1,
       played_position |-> "C", status |-> "ACTIVE", marginal_value |-> 2] }

StaleRows ==
    { [lineup_date |-> DayStr(1), team_id |-> "1", player_id |-> 9, played_position |-> "D",
       status |-> "ACTIVE", marginal_value |-> 0] }

InitGenerator ==
    /\ optimal_lineups \in {{}, OtherRows, OtherRows \cup StaleRows}
    /\ league_conn = ClosedConn
    /\ gpc = "start"
    /\ gen_db \in GenInputs
    /\ g_current_date = 0
    /\ g_outcome = "running"
    /\ g_deleted = FALSE
    /\ rows_before = optimal_lineups
    /\ gen_runs = 1
    /\ CoreIdle
    /\ ProcIdle
    /\ StreamIdle
    /\ FetchIdle

\* Lines 53-55: the connections are opened.
GenConnect ==
    /\ gpc = "start"
    /\ league_conn' = [open |-> TRUE, in_transaction |-> FALSE, rows |-> optimal_lineups]
    /\ gpc' = "read"
    /\ UNCHANGED <<optimal_lineups, gen_db, g_current_date, g_outcome, g_deleted,
                   rows_before, gen_runs, notGenVars>>

\* Lines 57-125: the table is ensured, settings and roster are read; without lineup
\* slots the function returns.
GenRead ==
    /\ gpc = "read"
    /\ IF gen_db.lineup_slots = <<>>
       THEN gpc' = "finally" /\ g_outcome' = "returned"
       ELSE gpc' = "delete" /\ UNCHANGED g_outcome
    /\ UNCHANGED <<optimal_lineups, league_conn, gen_db, g_current_date, g_deleted,
                   rows_before, gen_runs, notGenVars>>

\* Lines 129-133: the old rows of the team and week are deleted, which opens the
\* transaction.
GenDelete ==
    /\ gpc = "delete"
    /\ league_conn' = [league_conn EXCEPT
                          !.in_transaction = TRUE,
                          !.rows = delete_old(@, gen_db.team_id, gen_db.week_info)]
    /\ g_deleted' = TRUE
    /\ g_current_date' = gen_db.week_info.start_date
    /\ gpc' = "days"
    /\ UNCHANGED <<optimal_lineups, gen_db, g_outcome, rows_before, gen_runs, notGenVars>>

\* Lines 134-158: one date of the loop.
GenDay ==
    /\ gpc = "days"
    /\ g_current_date <= gen_db.week_info.end_date
    /\ LET playing_today ==
               SelectSeq(gen_db.roster_players,
                         LAMBDA p : DayStr(g_current_date) \in p.schedule)
           result == find_optimal_lineup(playing_today, gen_db.lineup_slots)
       IN league_conn' =
             IF playing_today = <<>> THEN league_conn
             ELSE [league_conn EXCEPT
                      !.in_transaction = TRUE,
                      !.rows = insert_all(@, rows_of_day(g_current_date, gen_db.team_id,
                                                         result.optimal_roster,
                                                         result.benched_players))]
    /\ g_current_date' = g_current_date + 1
    /\ UNCHANGED <<optimal_lineups, gpc, gen_db, g_outcome, g_deleted, rows_before,
                   gen_runs, notGenVars>>

\* Line 160: league_conn.commit().
GenCommit ==
    /\ gpc = "days"
    /\ g_current_date > gen_db.week_info.end_date
    /\ optimal_lineups' = league_conn.rows
    /\ league_conn' = [league_conn EXCEPT !.in_transaction = FALSE]
    /\ g_outcome' = "committed"
    /\ gpc' = "finally"
    /\ UNCHANGED <<gen_db, g_current_date, g_deleted, rows_before, gen_runs, notGenVars>>

\* Lines 163-164: a statement of the try block raises (a database error, a roster row
\* that cannot be read, the solver); the except clause logs it.
GenRaise ==
    /\ gpc \in {"read", "delete", "days"}
    /\ g_outcome' = "failed"
    /\ gpc' = "finally"
    /\ UNCHANGED <<optimal_lineups, league_conn, gen_db, g_current_date, g_deleted,
                   rows_before, gen_runs, notGenVars>>

\* Lines 165-170: the finally clause closes the connections.
GenClose ==
    /\ gpc = "finally"
    /\ optimal_lineups' = close(optimal_lineups, league_conn)
    /\ league_conn' = ClosedConn
    /\ gpc' = "done"
    /\ UNCHANGED <<gen_db, g_current_date, g_outcome, g_deleted, rows_before, gen_runs,
                   notGenVars>>

\* The next call, with the roster and settings of that time.
GenNextRun ==
    /\ gpc = "done"
    /\ gen_runs < MaxRuns
    /\ gen_db' \in GenInputs
    /\ gen_runs' = gen_runs + 1
    /\ rows_before' = optimal_lineups
    /\ g_current_date' = 0
    /\ g_outcome' = "running"
    /\ g_deleted' = FALSE
    /\ gpc' = "start"
    /\ UNCHANGED <<optimal_lineups, league_conn, notGenVars>>

NextGenerator ==
    \/ GenConnect
    \/ GenRead
    \/ GenDelete
    \/ GenDay
    \/ GenCommit
    \/ GenRaise
    \/ GenClose
    \/ GenNextRun

SpecGenerator == InitGenerator /\ [][NextGenerator]_vars

----------------------------------------------------------------------------
\* C27

\* The rows of the run's team and week among rows.
TeamWeekRows(rows) ==
    {r \in rows : /\ r.team_id = gen_db.team_id
                  /\ \E d \in gen_db.week_info.start_date .. gen_db.week_info.end_date :
                        r.lineup_date = DayStr(d)}

\* The rows a complete run produces: for every date with somebody playing, a row for
\* each starter and for each benched player of that date's solver result.
RunRows ==
    UNION { LET playing == SelectSeq(gen_db.roster_players, LAMBDA p : DayStr(d) \in p.schedule)
                result == find_optimal_lineup(playing, gen_db.lineup_slots)
            IN { LineupRow(d, gen_db.team_id, result.optimal_roster[k][1],
                           result.optimal_roster[k][2], "ACTIVE") :
                    k \in DOMAIN result.optimal_roster }
               \cup { LineupRow(d, gen_db.team_id, result.benched_players[k], "BN", "BENCH") :
                         k \in DOMAIN result.benched_players }
          : d \in gen_db.week_info.start_date .. gen_db.week_info.end_date }

\* C27: generate_weekly_lineups replaces the stored lineups of a team and week
\* all-or-nothing. Until a run has committed, and after a run that failed or returned
\* early (also after its DELETE), the committed rows are the rows from before the run;
\* after a run that reached the end, the rows of the team and week are exactly that
\* run's rows and every other row is as before.
C27_AllOrNothing ==
    /\ g_outcome # "committed" => optimal_lineups = rows_before
    /\ g_outcome = "committed" =>
          /\ TeamWeekRows(optimal_lineups) = RunRows
          /\ optimal_lineups \ TeamWeekRows(optimal_lineups)
                = rows_before \ TeamWeekRows(rows_before)
          /\ g_current_date > gen_db.week_info.end_date

\* C27 witness: a second run failed after its DELETE and after inserting rows that
\* differ from the ones stored by the first run; the connection is closed and the
\* stored rows are those of the first run.
C27_Witness ==
    /\ gpc = "done"
    /\ gen_runs = 2
    /\ g_outcome = "failed"
    /\ g_deleted
    /\ g_current_date > gen_db.week_info.start_date
    /\ TeamWeekRows(rows_before) # {}
    /\ TeamWeekRows(rows_before) # RunRows
    /\ RunRows # {}
    /\ optimal_lineups = rows_before

----------------------------------------------------------------------------
\* The background database processes of the server (src/server/app.py): the handlers
\* initialize_league, refresh_league and league_status run in the threads of the
\* server (app.run, line 486) and share the dict background_processes.

MaxThreads == 2
MaxProcs == 3

Leagues == {"L1", "L2"}

ThreadIds == 1..MaxThreads

NoThread == [handler |-> "none", league_id |-> "", tpc |-> "idle", response |-> ""]

\* process.poll() is None.
is_running(handle) == handle # 0 /\ processes[handle].running

\* league_id in background_processes and background_processes[league_id].poll() is None
\* (lines 254 and 351).
already_running(league_id) == is_running(background_processes[league_id])

\* Another handler of the league is between its check and its Popen.
OtherPreparing(t, league_id) ==
    \E u \in ThreadIds \ {t} : threads[u].tpc = "prepare" /\ threads[u].league_id = league_id

InitProcesses ==
    /\ background_processes = [l \in Leagues |-> 0]
    /\ processes = <<>>
    /\ db_files \in {{}, {"L1"}}
    /\ threads = [t \in ThreadIds |-> NoThread]
    /\ raced = {}
    /\ CoreIdle
    /\ GenIdle
    /\ StreamIdle
    /\ FetchIdle

\* A request arrives and a thread of the server takes it.
Arrive(t, handler, league_id) ==
    /\ threads[t].tpc = "idle"
    /\ threads' = [threads EXCEPT ![t] = [handler |-> handler, league_id |-> league_id,
                                          tpc |-> "check", response |-> ""]]
    /\ UNCHANGED <<background_processes, processes, db_files, raced, notProcVars>>

Return(t, status) ==
    threads' = [threads EXCEPT ![t].tpc = "idle", ![t].response = status]

\* initialize_league, lines 242-255: nothing to do when the database file exists or a
\* registered process of the league still runs.
InitializeCheck(t) ==
    /\ threads[t].handler = "initialize_league"
    /\ threads[t].tpc = "check"
    /\ LET league_id == threads[t].league_id
       IN IF league_id \in db_files
          THEN Return(t, "exists") /\ UNCHANGED raced
          ELSE IF already_running(league_id)
               THEN Return(t, "initializing") /\ UNCHANGED raced
               ELSE /\ threads' = [threads EXCEPT ![t].tpc = "prepare"]
                    /\ raced' = IF OtherPreparing(t, league_id)
                                THEN raced \cup {league_id} ELSE raced
    /\ UNCHANGED <<background_processes, processes, db_files, notProcVars>>

\* refresh_league, lines 346-352.
RefreshCheck(t) ==
    /\ threads[t].handler = "refresh_league"
    /\ threads[t].tpc = "check"
    /\ LET league_id == threads[t].league_id
       IN IF already_running(league_id)
          THEN Return(t, "refreshing") /\ UNCHANGED raced
          ELSE /\ threads' = [threads EXCEPT ![t].tpc = "prepare"]
               /\ raced' = IF OtherPreparing(t, league_id)
                           THEN raced \cup {league_id} ELSE raced
    /\ UNCHANGED <<background_processes, processes, db_files, notProcVars>>

\* Lines 258-277 and 355-374: the credentials file cannot be prepared (no token in the
\* session, or the write fails).
PrepareFails(t) ==
    /\ threads[t].tpc = "prepare"
    /\ Return(t, "error")
    /\ UNCHANGED <<background_processes, processes, db_files, raced, notProcVars>>

\* Lines 279-291 and 378-387: subprocess.Popen and the registration of its handle.
StartProcess(t) ==
    /\ threads[t].tpc = "prepare"
    /\ Len(processes) < MaxProcs
    /\ LET league_id == threads[t].league_id
       IN /\ processes' = Append(processes, [league_id |-> league_id, running |-> TRUE])
          /\ background_processes' =
                [background_processes EXCEPT ![league_id] = Len(processes) + 1]
          /\ Return(t, IF threads[t].handler = "initialize_league"
                       THEN "initializing" ELSE "refreshing")
    /\ UNCHANGED <<db_files, raced, notProcVars>>

\* league_status, lines 293-318.
LeagueStatus(t) ==
    /\ threads[t].handler = "league_status"
    /\ threads[t].tpc = "check"
    /\ LET league_id == threads[t].league_id
           process == background_processes[league_id]
           finished == process # 0 /\ ~is_running(process)
       IN /\ background_processes' =
                IF finished THEN [background_processes EXCEPT ![league_id] = 0]
                ELSE background_processes
          /\ Return(t, IF league_id \in db_files /\ (finished \/ process = 0) THEN "complete"
                       ELSE IF is_running(process) THEN "initializing"
                       ELSE IF finished THEN "error"
                       ELSE "not_found")
    /\ UNCHANGED <<processes, db_files, raced, notProcVars>>

\* A background process ends; it has written the league's database file, or has failed
\* before creating it.
ProcessExits(p, wrote_db) ==
    /\ p \in DOMAIN processes
    /\ processes[p].running
    /\ processes' = [processes EXCEPT ![p].running = FALSE]
    /\ db_files' = IF wrote_db THEN db_files \cup {processes[p].league_id} ELSE db_files
    /\ UNCHANGED <<background_processes, threads, raced, notProcVars>>

NextProcesses ==
    \/ \E t \in ThreadIds, league_id \in Leagues,
          handler \in {"initialize_league", "refresh_league", "league_status"} :
             Arrive(t, handler, league_id)
    \/ \E t \in ThreadIds : InitializeCheck(t)
    \/ \E t \in ThreadIds : RefreshCheck(t)
    \/ \E t \in ThreadIds : PrepareFails(t)
    \/ \E t \in ThreadIds : StartProcess(t)
    \/ \E t \in ThreadIds : LeagueStatus(t)
    \/ \E p \in 1..MaxProcs, wrote_db \in BOOLEAN : ProcessExits(p, wrote_db)

SpecProcesses == InitProcesses /\ [][NextProcesses]_vars

----------------------------------------------------------------------------
\* C28

RunningProcesses(league_id) ==
    {p \in DOMAIN processes : processes[p].league_id = league_id /\ processes[p].running}

\* C28: under any interleaving of initialize_league, refresh_league and league_status
\* requests, at most one background process per league id runs at any time.
C28_OneRunningProcessPerLeague ==
    \A league_id \in Leagues : Cardinality(RunningProcesses(league_id)) <= 1

\* C28, second half: a process is started for a league only when no registered process
\* of that league is still running.
C28_StartedOnlyWhenNoneRuns ==
    [][\A league_id \in Leagues :
          (\E p \in DOMAIN processes' \ DOMAIN processes : processes'[p].league_id = league_id)
              => ~already_running(league_id)]_vars

\* What the handlers do ensure: as long as no handler of a league has passed its check
\* while another handler of that league was between its check and its Popen, at most
\* one process of the league runs, and it is the registered one.
C28_OneRunningWithoutOverlap ==
    \A league_id \in Leagues \ raced :
        /\ Cardinality(RunningProcesses(league_id)) <= 1
        /\ RunningProcesses(league_id) \subseteq {background_processes[league_id]}

----------------------------------------------------------------------------
\* The log stream (src/app.py): every /stream response reads the one log_queue, and
\* every background update writes its log lines, its result and the terminator to it.

MaxConsumers == 2
MaxUpdates == 2
MaxLogLines == 1

ConsumerIds == 1..MaxConsumers
UpdateIds == 1..MaxUpdates

\* log_queue.put(None), line 1755.
Terminator == "None"

put(queue, message) == Append(queue, message)

InitStream ==
    /\ log_queue = <<>>
    /\ consumers = [c \in ConsumerIds |-> "closed"]
    /\ updates = [u \in UpdateIds |-> [upc |-> "idle", lines |-> 0]]
    /\ ended_early = FALSE
    /\ CoreIdle
    /\ GenIdle
    /\ ProcIdle
    /\ FetchIdle

UpdateRunning == \E u \in UpdateIds : updates[u].upc \in {"running", "finally"}

\* GET /stream, lines 1729-1737: the generator starts and blocks in log_queue.get().
OpenStream(c) ==
    /\ consumers[c] = "closed"
    /\ consumers' = [consumers EXCEPT ![c] = "waiting"]
    /\ UNCHANGED <<log_queue, updates, ended_early, notStreamVars>>

\* Lines 1732-1736: get() returns the oldest message to one of the waiting consumers;
\* the terminator ends that consumer, any other message is sent to its client.
StreamGet(c) ==
    /\ consumers[c] = "waiting"
    /\ log_queue # <<>>
    /\ log_queue' = Tail(log_queue)
    /\ consumers' = [consumers EXCEPT
                        ![c] = IF Head(log_queue) = Terminator THEN "ended" ELSE "waiting"]
    /\ ended_early' = (ended_early
                          \/ (Head(log_queue) = Terminator
                                /\ \E u \in UpdateIds : updates[u].upc \in {"running", "finally"}))
    /\ UNCHANGED <<updates, notStreamVars>>

\* POST /api/update_db, lines 1776-1781: the update thread is started.
StartUpdate(u) ==
    /\ updates[u].upc = "idle"
    /\ updates' = [updates EXCEPT ![u].upc = "running"]
    /\ UNCHANGED <<log_queue, consumers, ended_early, notStreamVars>>

\* Lines 52-57: a logging call of the update reaches QueueLogHandler.emit.
UpdateLogs(u) ==
    /\ updates[u].upc = "running"
    /\ updates[u].lines < MaxLogLines
    /\ log_queue' = put(log_queue, "log")
    /\ updates' = [updates EXCEPT ![u].lines = @ + 1]
    /\ UNCHANGED <<consumers, ended_early, notStreamVars>>

\* Line 1749: update_league_db returned.
UpdateSucceeds(u) ==
    /\ updates[u].upc = "running"
    /\ log_queue' = put(log_queue, "SUCCESS")
    /\ updates' = [updates EXCEPT ![u].upc = "finally"]
    /\ UNCHANGED <<consumers, ended_early, notStreamVars>>

\* Lines 1750-1752: update_league_db raised; logging.error reaches the queue through
\* the handler and the ERROR message follows it.
UpdateFails(u) ==
    /\ updates[u].upc = "running"
    /\ log_queue' = put(put(log_queue, "log"), "ERROR")
    /\ updates' = [updates EXCEPT ![u].upc = "finally"]
    /\ UNCHANGED <<consumers, ended_early, notStreamVars>>

\* Lines 1753-1755: the finally clause puts the terminator.
UpdateFinally(u) ==
    /\ updates[u].upc = "finally"
    /\ log_queue' = put(log_queue, Terminator)
    /\ updates' = [updates EXCEPT ![u].upc = "done"]
    /\ UNCHANGED <<consumers, ended_early, notStreamVars>>

UpdateStep(u) == UpdateSucceeds(u) \/ UpdateFails(u) \/ UpdateFinally(u)

NextStream ==
    \/ \E c \in ConsumerIds : OpenStream(c)
    \/ \E c \in ConsumerIds : StreamGet(c)
    \/ \E u \in UpdateIds : StartUpdate(u)
    \/ \E u \in UpdateIds : UpdateLogs(u)
    \/ \E u \in UpdateIds : UpdateSucceeds(u)
    \/ \E u \in UpdateIds : UpdateFails(u)
    \/ \E u \in UpdateIds : UpdateFinally(u)

SpecStream == InitStream /\ [][NextStream]_vars

\* Scheduling: a started update thread runs to its end (update_league_db returns or
\* raises), and a consumer blocked in get() is woken while the queue has a message.
StreamFairness ==
    /\ \A u \in UpdateIds : WF_vars(UpdateStep(u))
    /\ \A c \in ConsumerIds : SF_vars(StreamGet(c))

SpecStreamFair == SpecStream /\ StreamFairness

----------------------------------------------------------------------------
\* C29

\* C29: every /stream consumer that is open while a background update runs eventually
\* receives the end-of-stream terminator and ends, for any number of concurrently open
\* consumers and concurrently running updates sharing the one log queue.
C29_EveryConsumerEnds ==
    \A c \in ConsumerIds : (consumers[c] = "waiting" /\ UpdateRunning) ~> consumers[c] = "ended"

\* C29, the order: a consumer ends after the update finishes, that is, no consumer
\* receives the terminator while an update is still running.
C29_EndsAfterUpdatesFinish == ~ended_early

\* What the queue does ensure: with one consumer and one update only, the consumer that
\* is open while the update runs ends, and not before the update has finished.
C29_OneConsumerOneUpdate ==
    [](consumers[2] = "closed" /\ updates[2].upc = "idle")
        => (/\ (consumers[1] = "waiting" /\ UpdateRunning) ~> consumers[1] = "ended"
            /\ []~ended_early)

----------------------------------------------------------------------------
\* The daily fetch of update_league_db (src/db_builder.py): _update_daily_lineups
\* stores the lineups of a range of dates in daily_lineups_dump, and
\* parse_and_store_player_stats turns rows of the dump into daily_player_stats.

MaxClock == 3
MaxFetchRuns == 3
FetchWeekLen == 2

DayNumbers == (-1)..(MaxClock + 2)

\* date.fromisoformat of a stored date string.
DayNum(date_str) == CHOOSE i \in DayNumbers : DayStr(i) = date_str

StrLT(a, b) == StrLE(a, b) /\ a # b

\* None where a date string is expected.
NoDate == <<>>

\* SELECT MAX(date_) FROM a table: None when it has no rows.
max_date(rows) ==
    IF rows = {} THEN NoDate
    ELSE (CHOOSE r \in rows : \A q \in rows : StrLE(q.date_, r.date_)).date_

\* max() of two date strings.
str_max(a, b) == IF StrLE(a, b) THEN b ELSE a

league_start_date == DayStr(1)

\* _get_current_week_start_date, lines 681-703: the weeks start on day 1 and have
\* FetchWeekLen dates.
current_week_start_date(today_num) == DayStr(today_num - ((today_num - 1) % FetchWeekLen))

\* Lines 712-767: the first date to fetch.
start_date_for_fetch(last_fetch_date_str, today_iso, full_mode, week_start) ==
    LET start_date_override ==
            IF last_fetch_date_str # NoDate /\ last_fetch_date_str = today_iso
            THEN today_iso ELSE NoDate
        last_fetch_date_plus_one ==
            IF last_fetch_date_str # NoDate /\ last_fetch_date_str # today_iso
            THEN DayStr(DayNum(last_fetch_date_str) + 1) ELSE NoDate
        start_of_week_minus_one_str == DayStr(DayNum(week_start) - 1)
    IN IF start_date_override # NoDate THEN start_date_override
       ELSE IF full_mode
            THEN IF last_fetch_date_plus_one # NoDate THEN last_fetch_date_plus_one
                 ELSE league_start_date
            ELSE IF last_fetch_date_plus_one # NoDate
                 THEN str_max(start_of_week_minus_one_str, last_fetch_date_plus_one)
                 ELSE start_of_week_minus_one_str

\* INSERT OR REPLACE INTO daily_lineups_dump, and into daily_player_stats: one row per
\* date in this model (one team, one player, one stat).
replace_rows(rows, new_rows) ==
    {r \in rows : \A q \in new_rows : q.date_ # r.date_} \cup new_rows

\* The row a fetch made on day today_num stores for a date: which run fetched it, on
\* which day, and whether the answer held any statistics (it does once the date is
\* over; during the date its games may not have begun).
FetchedRow(date_num, run_number, today_num, has_stats) ==
    [date_ |-> DayStr(date_num), fetch_run |-> run_number, fetched_on |-> today_num,
     has_stats |-> (date_num < today_num) \/ has_stats]

InitFetch ==
    /\ clock = 1
    /\ daily_lineups_dump = {}
    /\ daily_player_stats = {}
    /\ fpc = "idle"
    /\ fetch_run = 0
    /\ is_full_mode = FALSE
    /\ run_day = 0
    /\ fetch_ok = FALSE
    /\ CoreIdle
    /\ GenIdle
    /\ ProcIdle
    /\ StreamIdle

\* update_league_db is called (line 1314).
StartRun(capture_lineups) ==
    /\ fpc = "idle"
    /\ fetch_run < MaxFetchRuns
    /\ fetch_run' = fetch_run + 1
    /\ is_full_mode' = capture_lineups
    /\ run_day' = clock
    /\ fetch_ok' = FALSE
    /\ fpc' = "lineups"
    /\ UNCHANGED <<clock, daily_lineups_dump, daily_player_stats, notFetchVars>>

\* _update_daily_lineups, lines 706-838.
UpdateDailyLineups(has_stats_today) ==
    /\ fpc = "lineups"
    /\ LET today_iso == DayStr(clock)
           stop_date == DayStr(clock + 1)
           start == start_date_for_fetch(max_date(daily_lineups_dump), today_iso,
                                         is_full_mode, current_week_start_date(clock))
           fetched == {FetchedRow(d, fetch_run, clock, has_stats_today) :
                          d \in {n \in DayNumbers : /\ StrLE(start, DayStr(n))
                                                    /\ StrLT(DayStr(n), stop_date)}}
       IN daily_lineups_dump' =
             IF StrLE(stop_date, start) THEN daily_lineups_dump
             ELSE replace_rows(daily_lineups_dump, fetched)
    /\ fetch_ok' = TRUE
    /\ fpc' = "parse"
    /\ UNCHANGED <<clock, daily_player_stats, fetch_run, is_full_mode, run_day, notFetchVars>>

\* Lines 839-841: a request to the provider raises; nothing is stored.
UpdateDailyLineupsFails ==
    /\ fpc = "lineups"
    /\ fpc' = "parse"
    /\ UNCHANGED <<clock, daily_lineups_dump, daily_player_stats, fetch_run, is_full_mode,
                   run_day, fetch_ok, notFetchVars>>

\* DBFinalizer.parse_and_store_player_stats, lines 176-330: the dump rows after the
\* last processed date, and today's, are parsed and stored.
ParseAndStorePlayerStats ==
    /\ fpc = "parse"
    /\ LET last_processed_date == max_date(daily_player_stats)
           today_iso == DayStr(clock)
           all_lineups ==
               IF last_processed_date = NoDate THEN daily_lineups_dump
               ELSE {r \in daily_lineups_dump :
                        StrLT(last_processed_date, r.date_) \/ r.date_ = today_iso}
           parsed == {[date_ |-> r.date_, fetch_run |-> r.fetch_run,
                       fetched_on |-> r.fetched_on] : r \in {q \in all_lineups : q.has_stats}}
       IN daily_player_stats' = replace_rows(daily_player_stats, parsed)
    /\ fpc' = "idle"
    /\ UNCHANGED <<clock, daily_lineups_dump, fetch_run, is_full_mode, run_day, fetch_ok,
                   notFetchVars>>

\* Midnight.
DayPasses ==
    /\ clock < MaxClock
    /\ clock' = clock + 1
    /\ UNCHANGED <<daily_lineups_dump, daily_player_stats, fpc, fetch_run, is_full_mode,
                   run_day, fetch_ok, notFetchVars>>

NextFetch ==
    \/ \E capture_lineups \in BOOLEAN : StartRun(capture_lineups)
    \/ \E has_stats_today \in BOOLEAN : UpdateDailyLineups(has_stats_today)
    \/ UpdateDailyLineupsFails
    \/ ParseAndStorePlayerStats
    \/ DayPasses

SpecFetch == InitFetch /\ [][NextFetch]_vars

----------------------------------------------------------------------------
\* C30

\* An update run has finished, its fetch stored rows, and no midnight passed during it.
RunFinished ==
    /\ fpc = "idle"
    /\ fetch_run > 0
    /\ fetch_ok
    /\ run_day = clock

\* C30: across update runs on successive days, a date that was fetched while it was
\* still in progress is fetched and processed again by a later run: after a run, the
\* stored lineups and the stored actuals of every date before the day of the run come
\* from a fetch made after that date ended.
C30_PastDatesComeFromLaterFetch ==
    RunFinished =>
        \A r \in daily_lineups_dump \cup daily_player_stats :
            DayNum(r.date_) < run_day => r.fetched_on > DayNum(r.date_)

\* C30, the part about the same day: a run re-fetches today, also when an earlier run
\* of the same day has fetched it.
C30_RunFetchesToday ==
    (fpc = "parse" /\ fetch_ok /\ run_day = clock) =>
        \E r \in daily_lineups_dump :
            r.date_ = DayStr(clock) /\ r.fetch_run = fetch_run /\ r.fetched_on = clock

\* What the code does with a date that is over: its dump row is never fetched again,
\* whichever run stored it.
C30_PastDatesAreNeverRefetched ==
    [][\A r \in daily_lineups_dump : DayNum(r.date_) < clock => r \in daily_lineups_dump']_vars

====
